---------------------------- MODULE Spec2Model ----------------------------
(***************************************************************************)
(* A model of the Harper content engine (rwf2/Harper):                     *)
(*   - value::List, the concurrent append-only list with a logical         *)
(*     ordering (src/lib/src/value/list.rs);                               *)
(*   - taxonomy::Metadata, the concurrent string-keyed value store         *)
(*     (src/lib/src/taxonomy/metadata.rs);                                 *)
(*   - Mockingbird::discover, the taxonomy builder                         *)
(*     (src/mockingbird/src/discover.rs) over an FsTree                    *)
(*     (src/lib/src/fstree.rs);                                            *)
(*   - markdown::Markdown, the plugin pipeline                             *)
(*     (src/lib/src/markdown/markdown.rs, src/lib/src/util/hlist.rs);      *)
(*   - taxonomy::renderer, the fork-join rendering pass                    *)
(*     (src/lib/src/taxonomy/renderer.rs, collection.rs, error.rs);        *)
(*   - typed metadata reads (src/lib/src/taxonomy/metadata.rs,             *)
(*     src/lib/src/value/value.rs);                                        *)
(*   - Mockingbird::build_site_items (src/mockingbird/src/discover.rs);    *)
(*   - markdown::AutoHeading and HeadingAnchor                             *)
(*     (src/lib/src/markdown/auto_heading.rs);                             *)
(*   - markdown::Snippet (src/lib/src/markdown/snippet.rs);                *)
(*   - value::Num (src/lib/src/value/value.rs);                            *)
(*   - url::UrlBuf::make_relative (src/lib/src/url/url_buf.rs, url.rs);    *)
(*   - markdown::Admonition (src/lib/src/markdown/admonition.rs);          *)
(*   - Error::chain and Chainable (src/lib/src/error.rs);                  *)
(*   - value::list::SliceIter (src/lib/src/value/list.rs);                 *)
(*   - the integer conversions of value::Value                             *)
(*     (src/lib/src/value/value.rs);                                       *)
(*   - mockingbird's render_site and render_collection_item                *)
(*     (src/mockingbird/src/render.rs).                                    *)
(* Each component has its own initial predicate, next-state relation and   *)
(* specification; the variables of the other components stay at rest.      *)
(* Option<T> is modelled as a sequence of length at most one: None is <<>> *)
(* and Some(x) is <<x>>.  Indices keep the source's 0-based numbering.     *)
(***************************************************************************)
EXTENDS Integers, Sequences, FiniteSets, TLC

VARIABLES
    \* ---- value::List<T> ----
    slots,        \* boxcar::Vec storage: index -> Option<item>, Some once active
    inflight,     \* boxcar::Vec's reservation counter
    count,        \* boxcar::Vec's count of completed pushes
    ordering,     \* List::ordering: Option<Vec<usize>>
    pushPc,       \* per thread: position inside List::push
    pushIdx,      \* per thread: the index the push reserved
    pushItem,     \* per thread: the item being pushed
    sortPc,       \* position inside List::sort_by
    sortN,        \* sort_by: the count it read
    sortOrd,      \* sort_by: the local ordering vector it computed
    sortsDone,    \* number of sort_by calls that returned
    getPc,        \* position inside List::get
    getI,         \* get: the display index asked for
    getIdx,       \* get: the storage index it resolved under the read lock
    getRes,       \* get: the last result
    getsDone,     \* number of get calls that returned
    getSeen,      \* history: the orderings installed while the get call ran
    pushedSet,    \* history: every item handed to push
    pushRaced,    \* history: some push was called while another was running
    lastOp,       \* history: the operation that returned last
    \* ---- taxonomy::Metadata ----
    map,          \* Metadata::map (DashMap): key -> Option<Value>
    mOp,          \* per thread: the Metadata method it called
    mPc,          \* per thread: position inside that call
    mKey,         \* per thread: the call's key
    mVal,         \* per thread: the call's value (or the value its producer makes)
    calls,        \* number of Metadata calls made
    log,          \* history: the calls that returned, with what they returned
    inserts,      \* history: the insert_raw executions that returned
    \* ---- fstree::FsTree and Mockingbird::discover ----
    tree,         \* FsTree::entries, the arena: EntryId i is tree[i + 1]
    dPc,          \* position inside Mockingbird::discover
    bfs,          \* the Bfs iterator of the running pass
    collections,  \* Site::collections: root EntryId -> Collection
    siteIndex,    \* Site::index: collection name -> root EntryId
    dErr,         \* the error discover returned, if any
    \* ---- markdown::Markdown ----
    plugins,      \* Markdown::plugins, the HList: plugins[1] is the head
    mdInput,      \* Markdown::input, then the local `input` of run
    mdPc,         \* position inside Markdown::run ("build" before the call)
    mdK,          \* the element of the HList the running fold is at
    mdBase,       \* the events pending at the innermost live iterator
    mdLazy,       \* the lazy iterators wrapped around it, innermost first
    received,     \* history: per stage, the events its remap was handed
    ended,        \* history: per stage, its remap saw the end of its input
    hookLog,      \* history: the hook calls made, in order
    mdMeta,       \* history: the hooks that stored into their Sink, in order
    mdErr,        \* the error run() returned, if any
    \* ---- taxonomy::renderer ----
    rSite,        \* Site::collections: per collection its index, data and items
    rPc,          \* position inside render_site
    rRound,       \* number of render_site calls made
    sortedItems,  \* per collection: the items arm of render_collection's join is done
    sortedData,   \* per collection: the data arm of render_collection's join is done
    visits,       \* per collection: the (kind, item) pairs par_map_items mapped, in order
    collected,    \* per collection: what render_collection returned
    streamRes,    \* render_site: `collected`, the result of the collection stream
    assetsRes,    \* render_site: `process_result`, the result of the resource stream
    rResult,      \* what render_site returned
    \* ---- fstree::FsTree::build_with and the lookups (on `tree`) ----
    fsWalk,       \* what the walker yields, in its order
    fsNext,       \* how many of the walker's entries build_with has taken
    fsPc,         \* position inside build_with; "built" once it returned Ok
    fsGot,        \* the last lookup: its root and path and what each method returned
    fsCalled,     \* build_with's callback calls: the id given, the arena's length then, the result
    fsErr,        \* the error build_with returned, if any
    fsBfs,        \* a Bfs over the built tree: its start, its fields, what it yielded
    fsPe,         \* a path_exists call: its arguments, its `to`, its position, its result
    \* ---- Metadata::get::<K>() and Key::read, the typed reads ----
    tMap,         \* the Metadata's map: per key, the Value stored, if any
    tRead,        \* the last typed read: its key, and what it returned
    \* ---- Mockingbird::build_site_items (on `tree`) ----
    aWalk,        \* what the walker yielded to the FsTree::build that made `tree`
    aPc,          \* position inside build_site_items
    aRoot,        \* self.asset_root
    aStack,       \* depth_first_search: the entries its calls still have to visit
    aItems,       \* site.items: per resource, its entry and its permapath
    \* ---- markdown::AutoHeading and HeadingAnchor, chained ----
    hDoc,         \* the events the parser yields
    hIter,        \* HeadingIterator: how far `inner` was read, `stack`, `seen`
    hPending,     \* AnchorIterator: `pending`
    hOut,         \* the events AnchorIterator yielded so far
    hEnded,       \* AnchorIterator returned None
    \* ---- markdown::Snippet ----
    sDoc,         \* the events the Snippet stage reads
    sMin,         \* Snippet::length, the iterator's min_length
    sPos,         \* how many events SnippetIterator has read
    sSnippet,     \* Snippet::snippet
    sCapture,     \* SnippetIterator::capture
    sLen,         \* SnippetIterator::snip_text_len
    sDone,        \* SnippetIterator::done
    sPc,          \* "iter" while the events are read, then "drained", "finalized"
    sEarly,       \* whether `done` was set while events were read
    sWritten,     \* what finalize wrote to the output
    sYielded,     \* history: the events next() has returned
    \* ---- value::Num ----
    numA,         \* a Num
    numB,         \* another Num
    numOut,       \* what eq, cmp and the two hashes gave for them
    \* ---- url::UrlBuf::make_relative ----
    urlFrom,      \* the string the UrlBuf was made from
    urlBuf,       \* the UrlBuf
    urlPc,         \* "made", then "relative" once make_relative returned
    \* ---- markdown::Admonition::preprocess ----
    adInput,      \* the input string
    adPos,        \* input.len() - bytes.len(): how much of the input is behind `bytes`
    adOut,        \* the contents of `output`
    adOwned,      \* whether `output` is Cow::Owned
    adPc,         \* "loop", then "returned"
    adSpans,       \* history: the admonitions found, each with its place in the input
    \* ---- error::Error::chain and Chainable::chain ----
    chSelf,       \* the Result chain is called on
    chOther,      \* the error given to chain
    chOut,        \* what the call returned, and which call it was
    \* ---- value::list::SliceIter ----
    itList,       \* the List at rest the Slice borrows
    itSlice,      \* SliceIter.slice: start and end
    itNext,       \* SliceIter.next
    itCalls,      \* history: each call made, and the item it returned
    \* ---- TryFrom<Value> for the integer types ----
    cvFrom,       \* the integer converted into a Value: its type's variant and itself
    cvType,       \* the integer type the Value is converted to
    cvOut,        \* what try_from returned
    \* ---- Mockingbird::render_site and render_collection_item ----
    mbSite,       \* the site's content items: per file, its kind, place and content
    mbMeta,       \* item.metadata of each item
    mbPc,         \* per item: "new", "rendered", then "written" or "skipped"
    mbPhase,      \* render_site: "render", "output", "done", or "err"
    mbOut         \* history: the writes below self.output, each with its item


listVars == <<slots, inflight, count, ordering, pushPc, pushIdx, pushItem,
              sortPc, sortN, sortOrd, sortsDone, getPc, getI, getIdx, getRes,
              getsDone, getSeen, pushedSet, pushRaced, lastOp>>

metaVars == <<map, mOp, mPc, mKey, mVal, calls, log, inserts>>

discVars == <<tree, dPc, bfs, collections, siteIndex, dErr>>

mdVars == <<plugins, mdInput, mdPc, mdK, mdBase, mdLazy, received, ended,
            hookLog, mdMeta, mdErr>>

renderVars == <<rSite, rPc, rRound, sortedItems, sortedData, visits, collected,
                streamRes, assetsRes, rResult>>

fsVars == <<fsWalk, fsNext, fsPc, fsGot, fsCalled, fsErr, fsBfs, fsPe>>

typedVars == <<tMap, tRead>>

assetVars == <<aWalk, aPc, aRoot, aStack, aItems>>

headVars == <<hDoc, hIter, hPending, hOut, hEnded>>

snipVars == <<sDoc, sMin, sPos, sSnippet, sCapture, sLen, sDone, sPc, sEarly, sWritten,
              sYielded>>

numVars == <<numA, numB, numOut>>

urlVars == <<urlFrom, urlBuf, urlPc>>

adVars == <<adInput, adPos, adOut, adOwned, adPc, adSpans>>

chVars == <<chSelf, chOther, chOut>>

itVars == <<itList, itSlice, itNext, itCalls>>

cvVars == <<cvFrom, cvType, cvOut>>

mbVars == <<mbSite, mbMeta, mbPc, mbPhase, mbOut>>

moreVars == <<typedVars, assetVars, headVars, snipVars, numVars, urlVars, adVars, chVars, itVars, cvVars, mbVars>>

vars == <<listVars, metaVars, discVars, mdVars, renderVars, fsVars, moreVars>>

\* What the steps of one component leave alone: the other components.
NotList == UNCHANGED <<metaVars, discVars, mdVars, renderVars, fsVars, moreVars>>
NotMeta == UNCHANGED <<listVars, discVars, mdVars, renderVars, fsVars, moreVars>>
NotDisc == UNCHANGED <<listVars, metaVars, mdVars, renderVars, fsVars, moreVars>>
NotMd == UNCHANGED <<listVars, metaVars, discVars, renderVars, fsVars, moreVars>>
NotRender == UNCHANGED <<listVars, metaVars, discVars, mdVars, fsVars, moreVars>>
NotTree == UNCHANGED <<listVars, metaVars, mdVars, renderVars,
                       dPc, bfs, collections, siteIndex, dErr, moreVars>>
\* The later components: each leaves every other component alone.
NotTyped == UNCHANGED <<listVars, metaVars, discVars, mdVars, renderVars, fsVars, assetVars, headVars, snipVars, numVars, urlVars, adVars, chVars, itVars, cvVars, mbVars>>
NotAssets == UNCHANGED <<listVars, metaVars, mdVars, renderVars, fsVars, dPc, bfs, collections, siteIndex, dErr, typedVars, headVars, snipVars, numVars, urlVars, adVars, chVars, itVars, cvVars, mbVars>>
NotHeading == UNCHANGED <<listVars, metaVars, discVars, mdVars, renderVars, fsVars, typedVars, assetVars, snipVars, numVars, urlVars, adVars, chVars, itVars, cvVars, mbVars>>
NotSnippet == UNCHANGED <<listVars, metaVars, discVars, mdVars, renderVars, fsVars, typedVars, assetVars, headVars, numVars, urlVars, adVars, chVars, itVars, cvVars, mbVars>>
NotNum == UNCHANGED <<listVars, metaVars, discVars, mdVars, renderVars, fsVars, typedVars, assetVars, headVars, snipVars, urlVars, adVars, chVars, itVars, cvVars, mbVars>>
NotUrl == UNCHANGED <<listVars, metaVars, discVars, mdVars, renderVars, fsVars, typedVars, assetVars, headVars, snipVars, numVars, adVars, chVars, itVars, cvVars, mbVars>>
NotAdmonition == UNCHANGED <<listVars, metaVars, discVars, mdVars, renderVars, fsVars, typedVars, assetVars, headVars, snipVars, numVars, urlVars, chVars, itVars, cvVars, mbVars>>
NotChain == UNCHANGED <<listVars, metaVars, discVars, mdVars, renderVars, fsVars, typedVars, assetVars, headVars, snipVars, numVars, urlVars, adVars, itVars, cvVars, mbVars>>
NotIter == UNCHANGED <<listVars, metaVars, discVars, mdVars, renderVars, fsVars, typedVars, assetVars, headVars, snipVars, numVars, urlVars, adVars, chVars, cvVars, mbVars>>
NotConv == UNCHANGED <<listVars, metaVars, discVars, mdVars, renderVars, fsVars, typedVars, assetVars, headVars, snipVars, numVars, urlVars, adVars, chVars, itVars, mbVars>>
NotMb == UNCHANGED <<listVars, metaVars, discVars, mdVars, renderVars, fsVars, typedVars, assetVars, headVars, snipVars, numVars, urlVars, adVars, chVars, itVars, cvVars>>

\* Option<T>
None == <<>>
Some(x) == <<x>>

(***************************************************************************)
(* Bounds of the model.                                                    *)
(***************************************************************************)
NumThreads == 2     \* threads that call List::push
MaxItems == 3       \* pushes over a run
MaxKey == 2         \* distinct sort keys an item may carry
MaxSorts == 2       \* sort_by calls over a run
MaxGets == 1        \* get calls over a run
NumCallers == 2     \* threads that call Metadata methods
MaxCalls == 3       \* Metadata calls over a run
MaxFiles == 4       \* regular files under the content root
MaxStages == 3      \* .plugin(..) calls before Markdown::run
MaxRenders == 2     \* render_site calls on one Site
MaxTreeFiles == 2   \* regular files the walker finds
MaxSkipped == 1     \* entries whose metadata the walker could not read
MaxAssetFiles == 3  \* regular files below the assets directory
MaxBlocks == 3      \* headings and paragraphs of a document
MaxLines == 4       \* lines of an input of Admonition::preprocess
MaxChain == 2       \* errors in the prev chain of an error before chain is called
MaxIterLen == 3     \* items of the List a SliceIter runs over
MaxIterCalls == 4   \* calls of next and next_back on one SliceIter
MaxSiteItems == 2   \* content items of the site Mockingbird renders

Threads == 1..NumThreads

(***************************************************************************)
(* value::List                                                             *)
(***************************************************************************)

\* An item: its sort key, and which push call it came from.
Item(k, u) == [key |-> k, uid |-> u]

\* std::cmp::Ordering of the comparator: items compare by key.
Compare(x, y) ==
    IF x.key < y.key THEN "Less" ELSE IF x.key = y.key THEN "Equal" ELSE "Greater"

\* boxcar::Vec::get: Some only for an index whose slot is active.
ItemsGet(i) == IF i \in DOMAIN slots THEN slots[i] ELSE None

\* List::get, the read of `ordering`: ordering.get(i).copied().unwrap_or(i).
ResolveFirst(ord, i) ==
    IF ord = None THEN i
    ELSE IF i < Len(ord[1]) THEN ord[1][i + 1] ELSE 0
Resolve(ord, i) ==
    IF ord = None THEN i
    ELSE IF i < Len(ord[1]) THEN ord[1][i + 1] ELSE i

\* List::get(i) as one atomic read.
Get(i) == ItemsGet(Resolve(ordering, i))

\* List::len
ListLen == count

\* The index List::push writes to: boxcar reserves it with inflight.fetch_add(1).
PushIndexByCount(infl, cnt) == cnt
PushIndex(infl, cnt) == infl

\* The key sort_by's comparator sees for index a: compare(self.get(a).unwrap(), ..),
\* so it is read through the ordering installed at that time.
SortKey(a) == Get(a)[1]

\* Insert index a into the sorted vector s behind every element not greater
\* than it (slice::sort_by is stable).
RECURSIVE InsertSorted(_, _)
InsertSorted(a, s) ==
    IF s = <<>> THEN <<a>>
    ELSE IF Compare(SortKey(a), SortKey(s[Len(s)])) = "Less"
         THEN Append(InsertSorted(a, SubSeq(s, 1, Len(s) - 1)), s[Len(s)])
         ELSE Append(s, a)

\* (0..n).collect() sorted by the comparator.
RECURSIVE SortedOrdering(_)
SortedOrdering(n) ==
    IF n = 0 THEN <<>> ELSE InsertSorted(n - 1, SortedOrdering(n - 1))

PushIdle == \A t \in Threads : pushPc[t] = "idle"
ListIdle == PushIdle /\ sortPc \in {"idle", "panicked"} /\ getPc = "idle"

InitListVars ==
    /\ slots = [i \in 0..(MaxItems - 1) |-> None]
    /\ inflight = 0
    /\ count = 0
    /\ ordering = None
    /\ pushPc = [t \in Threads |-> "idle"]
    /\ pushIdx = [t \in Threads |-> 0]
    /\ pushItem = [t \in Threads |-> Item(0, 0)]
    /\ sortPc = "idle"
    /\ sortN = 0
    /\ sortOrd = <<>>
    /\ sortsDone = 0
    /\ getPc = "idle"
    /\ getI = 0
    /\ getIdx = 0
    /\ getRes = None
    /\ getsDone = 0
    /\ getSeen = {}
    /\ pushedSet = {}
    /\ pushRaced = FALSE
    /\ lastOp = "new"

\* push, step 1: reserve an index (inflight.fetch_add).
PushReserve(t, k) ==
    /\ pushPc[t] = "idle"
    /\ inflight < MaxItems
    /\ pushIdx' = [pushIdx EXCEPT ![t] = PushIndex(inflight, count)]
    /\ pushItem' = [pushItem EXCEPT ![t] = Item(k, inflight + 1)]
    /\ inflight' = inflight + 1
    /\ pushedSet' = pushedSet \cup {Item(k, inflight + 1)}
    /\ pushRaced' = (pushRaced \/ \E u \in Threads : pushPc[u] # "idle")
    /\ pushPc' = [pushPc EXCEPT ![t] = "reserved"]
    /\ UNCHANGED <<slots, count, ordering, sortPc, sortN, sortOrd, sortsDone,
                   getPc, getI, getIdx, getRes, getsDone, getSeen, lastOp>>
    /\ NotList

\* push, step 2: write the value and mark the slot active.
PushWrite(t) ==
    /\ pushPc[t] = "reserved"
    /\ slots' = [slots EXCEPT ![pushIdx[t]] = Some(pushItem[t])]
    /\ pushPc' = [pushPc EXCEPT ![t] = "written"]
    /\ UNCHANGED <<inflight, count, ordering, pushIdx, pushItem, sortPc, sortN,
                   sortOrd, sortsDone, getPc, getI, getIdx, getRes, getsDone, getSeen,
                   pushedSet, pushRaced, lastOp>>
    /\ NotList

\* push, step 3: count.fetch_add(1), and return.
PushCount(t) ==
    /\ pushPc[t] = "written"
    /\ count' = count + 1
    /\ pushPc' = [pushPc EXCEPT ![t] = "idle"]
    /\ pushIdx' = [pushIdx EXCEPT ![t] = 0]
    /\ pushItem' = [pushItem EXCEPT ![t] = Item(0, 0)]
    /\ lastOp' = "push"
    /\ UNCHANGED <<slots, inflight, ordering, sortPc, sortN,
                   sortOrd, sortsDone, getPc, getI, getIdx, getRes, getsDone, getSeen,
                   pushedSet, pushRaced>>
    /\ NotList

\* sort_by, step 1: (0..self.items.count()).
SortCount ==
    /\ sortPc = "idle"
    /\ sortsDone < MaxSorts
    /\ sortN' = count
    /\ sortPc' = "counted"
    /\ UNCHANGED <<slots, inflight, count, ordering, pushPc, pushIdx, pushItem,
                   sortOrd, sortsDone, getPc, getI, getIdx, getRes, getsDone, getSeen,
                   pushedSet, pushRaced, lastOp>>
    /\ NotList

\* sort_by, step 2: ordering.sort_by(..).  With two or more indices the
\* comparator runs on every index and unwraps self.get(index): a None panics.
SortCompute ==
    /\ sortPc = "counted"
    /\ IF sortN >= 2 /\ \E a \in 0..(sortN - 1) : Get(a) = None
       THEN sortPc' = "panicked" /\ UNCHANGED sortOrd
       ELSE sortPc' = "sorted" /\ sortOrd' = SortedOrdering(sortN)
    /\ UNCHANGED <<slots, inflight, count, ordering, pushPc, pushIdx, pushItem,
                   sortN, sortsDone, getPc, getI, getIdx, getRes, getsDone, getSeen,
                   pushedSet, pushRaced, lastOp>>
    /\ NotList

\* sort_by, step 3: *self.ordering.write() = Some(ordering), and return.
SortWrite ==
    /\ sortPc = "sorted"
    /\ ordering' = Some(sortOrd)
    /\ sortPc' = "idle"
    /\ sortsDone' = sortsDone + 1
    /\ lastOp' = "sort_by"
    /\ sortN' = 0
    /\ sortOrd' = <<>>
    /\ getSeen' = IF getPc = "idle" THEN getSeen ELSE getSeen \cup {Some(sortOrd)}
    /\ UNCHANGED <<slots, inflight, count, pushPc, pushIdx, pushItem, getPc, getI, getIdx, getRes, getsDone, pushedSet, pushRaced>>
    /\ NotList

\* get(i) is called.
GetCall(i) ==
    /\ getPc = "idle"
    /\ getsDone < MaxGets
    /\ getI' = i
    /\ getSeen' = {ordering}
    /\ getPc' = "called"
    /\ UNCHANGED <<slots, inflight, count, ordering, pushPc, pushIdx, pushItem,
                   sortPc, sortN, sortOrd, sortsDone, getIdx, getRes, getsDone, pushedSet, pushRaced,
                   lastOp>>
    /\ NotList

\* get, under self.ordering.read(): map the display index to a storage index.
GetResolve ==
    /\ getPc = "called"
    /\ getIdx' = Resolve(ordering, getI)
    /\ getPc' = "resolved"
    /\ UNCHANGED <<slots, inflight, count, ordering, pushPc, pushIdx, pushItem,
                   sortPc, sortN, sortOrd, sortsDone, getI, getRes, getsDone, getSeen,
                   pushedSet, pushRaced, lastOp>>
    /\ NotList

\* get: self.items.get(i), and return.
GetFetch ==
    /\ getPc = "resolved"
    /\ getRes' = ItemsGet(getIdx)
    /\ getsDone' = getsDone + 1
    /\ getPc' = "idle"
    /\ UNCHANGED <<slots, inflight, count, ordering, pushPc, pushIdx, pushItem,
                   sortPc, sortN, sortOrd, sortsDone, getI, getIdx, getSeen,
                   pushedSet, pushRaced, lastOp>>
    /\ NotList

ListStart ==
    \/ \E t \in Threads, k \in 1..MaxKey : PushReserve(t, k)
    \/ SortCount
    \/ \E i \in 0..MaxItems : GetCall(i)

ListStep ==
    \/ \E t \in Threads : PushWrite(t)
    \/ \E t \in Threads : PushCount(t)
    \/ SortCompute
    \/ SortWrite
    \/ GetResolve
    \/ GetFetch

\* Calls from any number of threads, interleaved step by step.
NextList == ListStart \/ ListStep

\* Pushes from any number of threads and sort_by calls, with no get call.
NextListPush ==
    \/ \E t \in Threads, k \in 1..MaxKey : PushReserve(t, k)
    \/ \E t \in Threads : PushWrite(t)
    \/ \E t \in Threads : PushCount(t)
    \/ SortCount
    \/ SortCompute
    \/ SortWrite

\* Calls made one after the other: a call starts only when none is running.
NextListSeq == (ListIdle /\ ListStart) \/ ListStep


(***************************************************************************)
(* taxonomy::Metadata                                                      *)
(***************************************************************************)

Callers == 1..NumCallers
Keys == {"title", "draft"}

\* The get_or_insert family: each ends in get_or_insert_raw_with.
GetOrInsertOps ==
    {"get_or_insert", "get_or_insert_with", "get_or_insert_raw",
     "get_or_insert_raw_with"}
MetaOps == {"get_raw", "insert_raw"} \cup GetOrInsertOps
\* The three methods every other one is a wrapper of.
CoreOps == {"get_raw", "insert_raw", "get_or_insert_raw_with"}

\* Metadata::get_raw: self.map.get(key).map(|v| v.clone()).
GetRaw(m, k) == m[k]

\* What insert_raw's else branch returns: self.map.insert(key, value), the
\* value the map held under key at that moment.
MapInsertReturnsNone(m, k) == None
MapInsertReturn(m, k) == m[k]

\* What a call of the get_or_insert family returns after it inserted: the
\* value its own producer made.
GoiReturn(t) == Some(mVal[t])

InitMetaVars ==
    /\ map = [k \in Keys |-> None]
    /\ mOp = [t \in Callers |-> "none"]
    /\ mPc = [t \in Callers |-> "idle"]
    /\ mKey = [t \in Callers |-> "title"]
    /\ mVal = [t \in Callers |-> 0]
    /\ calls = 0
    /\ log = {}
    /\ inserts = {}

\* The method a call ends up in: get_or_insert, get_or_insert_with and
\* get_or_insert_raw all call get_or_insert_raw_with.
Method(op) == IF op \in GetOrInsertOps THEN "get_or_insert_raw_with" ELSE op

\* The call of thread t returns ret.
MReturn(t, ret) ==
    /\ log' = log \cup
           {[op |-> Method(mOp[t]), key |-> mKey[t], ret |-> ret]}
    /\ mOp' = [mOp EXCEPT ![t] = "none"]
    /\ mPc' = [mPc EXCEPT ![t] = "idle"]
    /\ mKey' = [mKey EXCEPT ![t] = "title"]
    /\ mVal' = [mVal EXCEPT ![t] = 0]

\* Thread t calls a Metadata method on key k.  A call that may insert brings
\* a value no other call brings.
MCall(t, op, k) ==
    /\ mPc[t] = "idle"
    /\ calls < MaxCalls
    /\ calls' = calls + 1
    /\ mOp' = [mOp EXCEPT ![t] = op]
    /\ mKey' = [mKey EXCEPT ![t] = k]
    /\ mVal' = [mVal EXCEPT ![t] = IF op = "get_raw" THEN 0 ELSE calls + 1]
    /\ mPc' = [mPc EXCEPT ![t] = IF op = "insert_raw" THEN "get_mut" ELSE "get_raw"]
    /\ UNCHANGED <<map, log, inserts>>
    /\ NotMeta

\* get_raw called directly: one read of the map.
MGetRaw(t) ==
    /\ mPc[t] = "get_raw"
    /\ mOp[t] = "get_raw"
    /\ MReturn(t, GetRaw(map, mKey[t]))
    /\ UNCHANGED <<map, calls, inserts>>
    /\ NotMeta

\* get_or_insert_raw_with: if let Some(value) = self.get_raw(key) { return value }
\* else let value = f().into(), and go on to insert_raw.
GoiGetRaw(t) ==
    /\ mPc[t] = "get_raw"
    /\ mOp[t] \in GetOrInsertOps
    /\ IF GetRaw(map, mKey[t]) # None
       THEN /\ MReturn(t, GetRaw(map, mKey[t]))
       ELSE /\ mPc' = [mPc EXCEPT ![t] = "get_mut"]
            /\ UNCHANGED <<mOp, mKey, mVal, log>>
    /\ UNCHANGED <<map, calls, inserts>>
    /\ NotMeta

\* What the running call returns once its insert_raw returned prev.
AfterInsert(t, prev) == IF mOp[t] = "insert_raw" THEN prev ELSE GoiReturn(t)

\* insert_raw: if let Some(mut existing) = self.map.get_mut(key) { swap; Some(value) }
\* and otherwise on to self.map.insert.
IrGetMut(t) ==
    /\ mPc[t] = "get_mut"
    /\ IF map[mKey[t]] # None
       THEN /\ map' = [map EXCEPT ![mKey[t]] = Some(mVal[t])]
            /\ inserts' = inserts \cup
                   {[key |-> mKey[t], val |-> mVal[t], prev |-> map[mKey[t]],
                     via |-> "swap", stored |-> map'[mKey[t]]]}
            /\ MReturn(t, AfterInsert(t, map[mKey[t]]))
       ELSE /\ mPc' = [mPc EXCEPT ![t] = "insert"]
            /\ UNCHANGED <<map, mOp, mKey, mVal, log, inserts>>
    /\ UNCHANGED calls
    /\ NotMeta

\* insert_raw's else branch: self.map.insert(key.into(), value).
IrInsert(t) ==
    /\ mPc[t] = "insert"
    /\ map' = [map EXCEPT ![mKey[t]] = Some(mVal[t])]
    /\ inserts' = inserts \cup
           {[key |-> mKey[t], val |-> mVal[t], prev |-> MapInsertReturn(map, mKey[t]),
             via |-> "insert", stored |-> map'[mKey[t]]]}
    /\ MReturn(t, AfterInsert(t, MapInsertReturn(map, mKey[t])))
    /\ UNCHANGED calls
    /\ NotMeta

MetaStep ==
    \/ \E t \in Callers : MGetRaw(t)
    \/ \E t \in Callers : GoiGetRaw(t)
    \/ \E t \in Callers : IrGetMut(t)
    \/ \E t \in Callers : IrInsert(t)

\* Calls of get_raw, insert_raw and get_or_insert_raw_with only.
NextMetaCore ==
    \/ \E t \in Callers, op \in CoreOps, k \in Keys : MCall(t, op, k)
    \/ MetaStep

NextMeta ==
    \/ \E t \in Callers, op \in MetaOps, k \in Keys : MCall(t, op, k)
    \/ \E t \in Callers : MGetRaw(t)
    \/ \E t \in Callers : GoiGetRaw(t)
    \/ \E t \in Callers : IrGetMut(t)
    \/ \E t \in Callers : IrInsert(t)

(***************************************************************************)
(* fstree::FsTree                                                          *)
(*                                                                         *)
(* A file name is the sequence of its dot-separated parts ("index.md" is   *)
(* <<"index", "md">>) and a path is the sequence of its components.        *)
(***************************************************************************)

\* What the walker can find: the input directory, its content directory
\* (CONTENT_DIR), three directories below that, and files in them.
RootPath == << <<"site">> >>
DirNames == << <<"content">>, <<"post">>, <<"deep">>, <<"docs">> >>
\* The directory (by its place in DirNames; 0 is the input directory) each
\* directory lies in.
DirParent == <<0, 1, 2, 1>>
FileNames ==
    << <<"index", "md">>, <<"index", "markdown">>, <<"post", "md">>,
       <<"extra", "toml">> >>

RECURSIVE DirPath(_)
DirPath(d) == IF d = 0 THEN RootPath ELSE Append(DirPath(DirParent[d]), DirNames[d])

\* The files that may exist: <<directory, name>>.
Candidates == (1..Len(DirNames)) \X (1..Len(FileNames))

\* jwalk::DirEntry, as far as FsTree::insert reads it.
DirEntryOf(path, isFile) ==
    [path |-> path,
     parent_path |-> SubSeq(path, 1, Len(path) - 1),
     file_name |-> path[Len(path)],
     is_file |-> isFile,
     depth |-> Len(path) - 1]

\* The files of `files` in directory d, in name order.
RECURSIVE FilesIn(_, _, _)
FilesIn(d, files, n) ==
    IF n > Len(FileNames) THEN <<>>
    ELSE (IF <<d, n>> \in files
          THEN <<DirEntryOf(Append(DirPath(d), FileNames[n]), TRUE)>>
          ELSE <<>>) \o FilesIn(d, files, n + 1)

\* The walker's output for directory d and below: the directory, then what
\* it holds, each sub-directory followed at once by its own content.  The
\* order inside one directory is the file system's: files first or last.
RECURSIVE Walk(_, _, _)
RECURSIVE WalkSubDirs(_, _, _, _)
WalkSubDirs(d, files, dirsFirst, j) ==
    IF j > Len(DirNames) THEN <<>>
    ELSE (IF DirParent[j] = d THEN Walk(j, files, dirsFirst) ELSE <<>>)
         \o WalkSubDirs(d, files, dirsFirst, j + 1)
Walk(d, files, dirsFirst) ==
    <<DirEntryOf(DirPath(d), FALSE)>>
    \o (IF dirsFirst
        THEN WalkSubDirs(d, files, dirsFirst, 1) \o FilesIn(d, files, 1)
        ELSE FilesIn(d, files, 1) \o WalkSubDirs(d, files, dirsFirst, 1))

\* FsTree::map, read: self.map.get(path).cloned().
MapGet(entries, path) ==
    LET ids == {i \in 1..Len(entries) : entries[i].path = path}
    IN  IF ids = {} THEN None
        ELSE Some(entries[CHOOSE i \in ids : \A j \in ids : j <= i].id)

\* FsTree::insert
Insert(entries, de) ==
    LET id == Len(entries)
        parent == MapGet(entries, de.parent_path)
        entry == [id |-> id, path |-> de.path, file_name |-> de.file_name,
                  is_file |-> de.is_file, parent |-> parent,
                  children |-> <<>>, depth |-> de.depth]
        linked == IF parent # None
                  THEN [entries EXCEPT ![parent[1] + 1].children = Append(@, id)]
                  ELSE entries
    IN  Append(linked, entry)

\* FsTree::build: insert every entry the walker yields, in its order.
RECURSIVE BuildTree(_)
BuildTree(walk) ==
    IF walk = <<>> THEN <<>>
    ELSE Insert(BuildTree(SubSeq(walk, 1, Len(walk) - 1)), walk[Len(walk)])

\* tree[id]
Entry(id) == tree[id + 1]

\* Entry::file_stem: the name up to its last '.', the whole name if it has none.
FileStem(name) == IF Len(name) > 1 THEN SubSeq(name, 1, Len(name) - 1) ELSE name

\* Path::starts_with
StartsWith(path, prefix) ==
    Len(prefix) <= Len(path) /\ SubSeq(path, 1, Len(prefix)) = prefix

\* Entry::path_relative_to: the last depth(self) - depth(other) components.
PathRelativeTo(e, other) ==
    IF ~StartsWith(e.path, other.path) THEN None
    ELSE Some(SubSeq(e.path, Len(e.path) - (e.depth - other.depth) + 1, Len(e.path)))

\* An iterator that starts at the tree's root EntryId(0), whatever `root` is.
IterFromTreeRoot(root) == [root |-> Some(0), stack |-> <<>>, progress |-> 0]

\* FsTree::iter_breadth_first
IterBreadthFirst(root) == [root |-> Some(root), stack |-> <<>>, progress |-> 0]

\* Bfs::next: the iterator after the call, and what the call returned.
RECURSIVE BfsNext(_)
BfsNext(it) ==
    IF it.root # None
    THEN [it |-> [it EXCEPT !.root = None, !.stack = <<it.root[1]>> \o it.stack],
          out |-> it.root]
    ELSE IF it.stack = <<>>
    THEN [it |-> it, out |-> None]
    ELSE LET children == Entry(Head(it.stack)).children
         IN  IF it.progress < Len(children)
             THEN LET node == children[it.progress + 1]
                  IN  [it |-> [it EXCEPT
                                 !.stack = IF Entry(node).children # <<>>
                                           THEN Append(it.stack, node)
                                           ELSE it.stack,
                                 !.progress = it.progress + 1],
                       out |-> Some(node)]
             ELSE BfsNext([it EXCEPT !.stack = Tail(it.stack), !.progress = 0])

\* The filters of build_collections (wantIndex) and of build_items
\* (~wantIndex) behind Bfs::files().
Selected(id, wantIndex) ==
    /\ Entry(id).is_file
    /\ (FileStem(Entry(id).file_name) = <<"index">>) <=> wantIndex

\* One turn of `for e in iter.files().filter(..)`: next() until an entry
\* passes the filters or the iterator ends.
RECURSIVE NextSelected(_, _)
NextSelected(it, wantIndex) ==
    LET r == BfsNext(it)
    IN  IF r.out = None \/ Selected(r.out[1], wantIndex) THEN r
        ELSE NextSelected(r.it, wantIndex)

(***************************************************************************)
(* taxonomy::Site, taxonomy::Collection and Mockingbird::discover          *)
(***************************************************************************)

\* dircheck(&tree, None, CONTENT_DIR, true): tree.get(None, "content").
ContentRoot == MapGet(tree, Append(Entry(0).path, <<"content">>))[1]

\* Collection::new
NewCollection(root) == [root |-> root, index |-> None, items |-> <<>>, data |-> <<>>]

\* Collection::data is a map from a directory to its list; here a sequence
\* of [dir, list] with one element per directory.
DataDirs(c) == {c.data[i].dir : i \in 1..Len(c.data)}
DataOf(c, dir) ==
    IF dir \in DataDirs(c)
    THEN (c.data[CHOOSE i \in 1..Len(c.data) : c.data[i].dir = dir]).list
    ELSE <<>>

\* Collection::new_item
NewItem(c, entry) == [c EXCEPT !.items = Append(@, entry)]

\* Collection::new_datum: self.data.entry(parent).or_default().push(datum)
NewDatum(c, parent, entry) ==
    [c EXCEPT !.data =
        IF parent \in DataDirs(c)
        THEN [i \in 1..Len(c.data) |->
                 IF c.data[i].dir = parent
                 THEN [c.data[i] EXCEPT !.list = Append(@, entry)]
                 ELSE c.data[i]]
        ELSE Append(c.data, [dir |-> parent, list |-> <<entry>>])]

\* Collection::set_index_item
SetIndexItem(c, entry) == [c EXCEPT !.index = Some(entry)]

\* build_collections: if let Some(ref existing) = collection.index
HasIndexNever(c) == FALSE
HasIndex(c) == c.index # None

\* build_items: entry.depth - collection.entry.depth <= 1
IsDirectItemWithin2(entryDepth, rootDepth) == entryDepth - rootDepth <= 2
IsDirectItem(entryDepth, rootDepth) == entryDepth - rootDepth <= 1

\* Site::get_or_insert_collection: the collections map after the call.
WithCollection(colls, root) ==
    IF root \in DOMAIN colls THEN colls
    ELSE [r \in DOMAIN colls \cup {root} |->
             IF r = root THEN NewCollection(root) ELSE colls[r]]

\* Mockingbird::parent: the root of the first collection met walking up
\* from entry through the parent links, None past the tree's root.
ParentImmediate(colls, entry) ==
    LET parent == Entry(entry).parent
    IN  IF parent # None /\ parent[1] \in DOMAIN colls THEN parent ELSE None
RECURSIVE Parent(_, _)
Parent(colls, entry) ==
    LET parent == Entry(entry).parent
    IN  IF parent = None THEN None
        ELSE IF parent[1] \in DOMAIN colls THEN parent
        ELSE Parent(colls, parent[1])

\* The name build_collections gives the collection of group_dir.
CollectionName(groupDir) ==
    PathRelativeTo(Entry(groupDir), Entry(ContentRoot))[1]
\* The name build_items gives the implicit root collection: "/".
RootCollectionName == << <<"/">> >>

\* The trees FsTree::build yields for the walks of the model.
Trees ==
    {BuildTree(<<DirEntryOf(RootPath, FALSE)>> \o Walk(1, files, dirsFirst)) :
        files \in {f \in SUBSET Candidates : Cardinality(f) <= MaxFiles},
        dirsFirst \in BOOLEAN}

DiscAtRest ==
    /\ tree = <<>>
    /\ dPc = "rest"
    /\ bfs = IterBreadthFirst(0)
    /\ collections = <<>>
    /\ siteIndex = <<>>
    /\ dErr = None

\* Mockingbird::new has built the tree; discover has not been called.
InitDiscVars ==
    /\ tree \in Trees
    /\ dPc = "start"
    /\ bfs = IterBreadthFirst(0)
    /\ collections = <<>>
    /\ siteIndex = <<>>
    /\ dErr = None

\* discover: Site::new, build_site_items (there is no assets directory, so
\* it returns at once), and build_collections up to its loop.
DiscoverStart ==
    /\ dPc = "start"
    /\ dPc' = "collections"
    /\ bfs' = IterBreadthFirst(ContentRoot)
    /\ UNCHANGED <<tree, collections, siteIndex, dErr>>
    /\ NotDisc

\* Site::get_or_insert_collection(name, root) on the site's two maps; the
\* assert on a name that is taken panics.
GetOrInsertCollection(name, root) ==
    IF root \in DOMAIN collections
    THEN siteIndex' = siteIndex
    ELSE siteIndex' = [n \in DOMAIN siteIndex \cup {name} |->
                          IF n = name THEN root ELSE siteIndex[n]]
NameTaken(name, root) == root \notin DOMAIN collections /\ name \in DOMAIN siteIndex

\* build_collections: one turn of the loop over the index files, or its end.
BuildCollectionsStep ==
    /\ dPc = "collections"
    /\ LET r == NextSelected(bfs, TRUE)
       IN  IF r.out = None
           THEN /\ dPc' = "items"
                /\ bfs' = IterBreadthFirst(ContentRoot)
                /\ UNCHANGED <<collections, siteIndex, dErr>>
           ELSE LET index == r.out[1]
                    groupDir == Entry(index).parent[1]
                    colls == WithCollection(collections, groupDir)
                IN  IF NameTaken(CollectionName(groupDir), groupDir)
                    THEN /\ dPc' = "panicked"
                         /\ UNCHANGED <<bfs, collections, siteIndex, dErr>>
                    ELSE /\ GetOrInsertCollection(CollectionName(groupDir), groupDir)
                         /\ bfs' = r.it
                         /\ IF HasIndex(colls[groupDir])
                            THEN /\ dPc' = "failed"
                                 /\ dErr' = Some([collection |-> Entry(groupDir).path,
                                                  first |-> Entry(colls[groupDir].index[1]).path,
                                                  second |-> Entry(index).path])
                                 /\ collections' = colls
                            ELSE /\ collections' =
                                        [colls EXCEPT ![groupDir] = SetIndexItem(@, index)]
                                 /\ UNCHANGED <<dPc, dErr>>
    /\ UNCHANGED tree
    /\ NotDisc

\* build_items: one turn of the loop over the other files, or its end.
BuildItemsStep ==
    /\ dPc = "items"
    /\ LET r == NextSelected(bfs, FALSE)
       IN  IF r.out = None
           THEN /\ dPc' = "done"
                /\ UNCHANGED <<bfs, collections, siteIndex>>
           ELSE LET entry == r.out[1]
                    found == Parent(collections, entry)
                    root == IF found # None THEN found[1] ELSE ContentRoot
                    colls == WithCollection(collections, root)
                IN  IF found = None /\ NameTaken(RootCollectionName, root)
                    THEN /\ dPc' = "panicked"
                         /\ UNCHANGED <<bfs, collections, siteIndex>>
                    ELSE /\ IF found = None
                            THEN GetOrInsertCollection(RootCollectionName, root)
                            ELSE UNCHANGED siteIndex
                         /\ bfs' = r.it
                         /\ collections' =
                               [colls EXCEPT ![root] =
                                   IF IsDirectItem(Entry(entry).depth, Entry(root).depth)
                                   THEN NewItem(@, entry)
                                   ELSE NewDatum(@, Entry(entry).parent[1], entry)]
                         /\ UNCHANGED dPc
    /\ UNCHANGED <<tree, dErr>>
    /\ NotDisc

NextDisc == DiscoverStart \/ BuildCollectionsStep \/ BuildItemsStep

(***************************************************************************)
(* markdown::Markdown and util::hlist                                      *)
(*                                                                         *)
(* A text is a sequence of tokens <<what, who>>; an event is the token it  *)
(* was parsed from and the stages whose remap has transformed it so far.   *)
(* A stage is one of the kinds of plugin the repository has:               *)
(*   "strip"  rewrites in preprocess by borrowing a suffix (FrontMatter),  *)
(*   "expand" rewrites in preprocess into an owned string (Templatize),    *)
(*   "lazy"   remaps event by event and writes in finalize (TableOfContents*)
(*            , Snippet),                                                  *)
(*   "render" consumes its input inside remap and yields nothing           *)
(*            (Renderer),                                                  *)
(*   "parts"  consumes its input inside remap and yields one Html event    *)
(*            (Parts).                                                     *)
(***************************************************************************)
StageKinds == {"strip", "expand", "lazy", "render", "parts"}
StageIds == 1..MaxStages
RawInputs == { << <<"fm", 0>>, <<"body", 0>> >>, << <<"body", 0>> >> }

\* An insert that puts the new value last.
HListAppend(list, value) == list \o <<value>>

\* HList::insert: the new value becomes the head.
HListInsert(list, value) == <<value>> \o list

\* lfold!: the n-th application of the closure is to the n-th element.
LfoldAt(list, n) == n

\* rfold!: the closure is applied to the head last, so its n-th application
\* is to the n-th element from the end.
RfoldAt(list, n) == Len(list) - n + 1

\* Plugin::preprocess of each kind (the default returns its input).
Preprocess(stage, input) ==
    CASE stage.kind = "strip" ->
            IF input # <<>> /\ Head(input)[1] = "fm" THEN Tail(input) ELSE input
      [] stage.kind = "expand" -> Append(input, <<"x", stage.id>>)
      [] OTHER -> input

\* The kinds whose preprocess, and whose finalize, returns a Result that
\* can be an error.
PreprocessCanFail(stage) == stage.kind \in {"strip", "expand"}
FinalizeCanFail(stage) == stage.kind \in {"lazy", "render", "parts"}

\* Parser::new_ext: one event per token.
Parse(input) == [i \in 1..Len(input) |-> [src |-> input[i], by |-> <<>>]]

\* An event after the first j of the lazy iterators ls have mapped it.
Through(e, ls, j) == [e EXCEPT !.by = e.by \o SubSeq(ls, 1, j)]

\* Pulling the events buf through the lazy iterators ls: what each stage is
\* handed.
Handed(rec, buf, ls) ==
    [s \in StageIds |->
        IF \E j \in 1..Len(ls) : ls[j] = s
        THEN LET j == CHOOSE j \in 1..Len(ls) : ls[j] = s
             IN  rec[s] \o [i \in 1..Len(buf) |-> Through(buf[i], ls, j - 1)]
        ELSE rec[s]]

\* The events that come out at the top.
Yielded(buf, ls) == [i \in 1..Len(buf) |-> Through(buf[i], ls, Len(ls))]

\* Iterator::next on the innermost live iterator, without the lazy ones: the
\* pending event, if any.
NextEventNone(base) == None

NextEvent(base) == IF base # <<>> THEN Some(Head(base)) ELSE None

HookCall(hook, stage, in, out, ok) ==
    [hook |-> hook, stage |-> stage.id, in |-> in, out |-> out, ok |-> ok]

\* A chain that puts `other` behind `self`.
ErrorChainBehind(self, other) == self \o other

\* A _chain that sets behind.prev whether or not it holds an error.
ChainIntoFirst(error, behind) == <<Head(behind)>> \o error

\* Error::chain's inner fn _chain(error, behind): `error` is put in the first
\* empty prev below `behind`.
RECURSIVE ChainInto(_, _)
ChainInto(error, behind) ==
    IF Len(behind) > 1
    THEN <<Head(behind)>> \o ChainInto(error, Tail(behind))
    ELSE <<Head(behind)>> \o error

\* Error::chain: `self` becomes the innermost prev of `other`, which is returned.
ErrorChain(self, other) == ChainInto(self, other)

\* The context run() chains behind a failed finalize.
PluginFailed == << <<"markdown plugin failed", 0, 0>> >>

\* What a hook returned when it failed.
HookError(hook, stage) == << <<hook, stage.id, 0>> >>

\* run()'s `?` on a failed finalize without the .chain(..) before it.
FinalizeFailedBare(error) == error

\* run()'s p.finalize().chain(error!("markdown plugin failed"))? on an Err.
FinalizeFailed(error) == ErrorChain(error, PluginFailed)

\* A hook that stores into its Sink: FrontMatter::preprocess on an input
\* with front matter, and the finalize of every kind that has one.
Writes(hook, stage, input) ==
    \/ hook = "preprocess" /\ stage.kind = "strip"
          /\ input # <<>> /\ Head(input)[1] = "fm"
    \/ hook = "finalize" /\ stage.kind \in {"lazy", "render", "parts"}

MdAtRest ==
    /\ plugins = <<>>
    /\ mdInput = <<>>
    /\ mdPc = "rest"
    /\ mdK = 0
    /\ mdBase = <<>>
    /\ mdLazy = <<>>
    /\ received = [s \in StageIds |-> <<>>]
    /\ ended = [s \in StageIds |-> FALSE]
    /\ hookLog = <<>>
    /\ mdMeta = <<>>
    /\ mdErr = None

\* Markdown::from
InitMdVars ==
    /\ plugins = <<>>
    /\ mdInput \in RawInputs
    /\ mdPc = "build"
    /\ mdK = 0
    /\ mdBase = <<>>
    /\ mdLazy = <<>>
    /\ received = [s \in StageIds |-> <<>>]
    /\ ended = [s \in StageIds |-> FALSE]
    /\ hookLog = <<>>
    /\ mdMeta = <<>>
    /\ mdErr = None

\* Markdown::plugin
Plugin(kind) ==
    /\ mdPc = "build"
    /\ Len(plugins) < MaxStages
    /\ plugins' = HListInsert(plugins, [id |-> Len(plugins) + 1, kind |-> kind])
    /\ UNCHANGED <<mdInput, mdPc, mdK, mdBase, mdLazy, received, ended, hookLog, mdMeta, mdErr>>
    /\ NotMd

\* Markdown::run, self.input.try_read
RunRead ==
    /\ mdPc = "build"
    /\ \/ mdPc' = "pre" /\ UNCHANGED mdErr
       \/ mdPc' = "err" /\ mdErr' = Some(<< <<"read", 0, 0>> >>)
    /\ mdK' = 0
    /\ UNCHANGED <<plugins, mdInput, mdBase, mdLazy, received, ended, hookLog, mdMeta>>
    /\ NotMd

\* Markdown::run, one application of the closure of the preprocess fold
RunPreprocess ==
    /\ mdPc = "pre"
    /\ mdK < Len(plugins)
    /\ LET p == plugins[RfoldAt(plugins, mdK + 1)]
           out == Preprocess(p, mdInput)
       IN  \/ /\ hookLog' = Append(hookLog, HookCall("preprocess", p, mdInput, out, TRUE))
              /\ mdMeta' = IF Writes("preprocess", p, mdInput)
                            THEN Append(mdMeta, <<"preprocess", p.id>>) ELSE mdMeta
              /\ mdInput' = out
              /\ mdK' = mdK + 1
              /\ mdPc' = "pre"
              /\ UNCHANGED mdErr
           \/ /\ PreprocessCanFail(p)
              /\ hookLog' = Append(hookLog, HookCall("preprocess", p, mdInput, <<>>, FALSE))
              /\ mdPc' = "err"
              /\ mdErr' = Some(HookError("preprocess", p))
              /\ UNCHANGED <<mdInput, mdK, mdMeta>>
    /\ UNCHANGED <<plugins, mdBase, mdLazy, received, ended>>
    /\ NotMd

\* Markdown::run, Parser::new_ext
RunParse ==
    /\ mdPc = "pre"
    /\ mdK = Len(plugins)
    /\ mdBase' = Parse(mdInput)
    /\ mdLazy' = <<>>
    /\ mdK' = 0
    /\ mdPc' = "remap"
    /\ UNCHANGED <<plugins, mdInput, received, ended, hookLog, mdMeta, mdErr>>
    /\ NotMd

\* Markdown::run, one application of the closure of the remap fold
RunRemap ==
    /\ mdPc = "remap"
    /\ mdK < Len(plugins)
    /\ LET p == plugins[RfoldAt(plugins, mdK + 1)]
           drained == [Handed(received, mdBase, mdLazy) EXCEPT
                           ![p.id] = @ \o Yielded(mdBase, mdLazy)]
           allEnded == [s \in StageIds |->
                           ended[s] \/ s = p.id \/ \E j \in 1..Len(mdLazy) : mdLazy[j] = s]
       IN  /\ hookLog' = Append(hookLog, HookCall("remap", p, <<>>, <<>>, TRUE))
           /\ CASE p.kind = "lazy" ->
                     /\ mdLazy' = Append(mdLazy, p.id)
                     /\ UNCHANGED <<mdBase, received, ended>>
                [] p.kind = "render" ->
                     /\ received' = drained
                     /\ ended' = allEnded
                     /\ mdBase' = <<>>
                     /\ mdLazy' = <<>>
                [] p.kind = "parts" ->
                     /\ received' = drained
                     /\ ended' = allEnded
                     /\ mdBase' = << [src |-> <<"html", p.id>>, by |-> <<>>] >>
                     /\ mdLazy' = <<>>
                [] OTHER -> UNCHANGED <<mdBase, mdLazy, received, ended>>
    /\ mdK' = mdK + 1
    /\ UNCHANGED <<plugins, mdInput, mdPc, mdMeta, mdErr>>
    /\ NotMd

\* Markdown::run, events.for_each: one call of next() on the composed iterator
RunForEach ==
    /\ mdPc = "remap"
    /\ mdK = Len(plugins)
    /\ IF NextEvent(mdBase) # None
       THEN /\ received' = Handed(received, NextEvent(mdBase), mdLazy)
            /\ mdBase' = Tail(mdBase)
            /\ UNCHANGED <<ended, mdPc, mdK>>
       ELSE /\ ended' = [s \in StageIds |->
                            ended[s] \/ \E j \in 1..Len(mdLazy) : mdLazy[j] = s]
            /\ mdPc' = "fin"
            /\ mdK' = 0
            /\ UNCHANGED <<received, mdBase>>
    /\ UNCHANGED <<plugins, mdInput, mdLazy, hookLog, mdMeta, mdErr>>
    /\ NotMd

\* Markdown::run, one application of the closure of for_each_mut!
RunFinalize ==
    /\ mdPc = "fin"
    /\ mdK < Len(plugins)
    /\ LET p == plugins[RfoldAt(plugins, mdK + 1)]
       IN  \/ /\ hookLog' = Append(hookLog, HookCall("finalize", p, <<>>, <<>>, TRUE))
              /\ mdMeta' = IF Writes("finalize", p, <<>>)
                            THEN Append(mdMeta, <<"finalize", p.id>>) ELSE mdMeta
              /\ mdK' = mdK + 1
              /\ mdPc' = "fin"
              /\ UNCHANGED mdErr
           \/ /\ FinalizeCanFail(p)
              /\ hookLog' = Append(hookLog, HookCall("finalize", p, <<>>, <<>>, FALSE))
              /\ mdPc' = "err"
              /\ mdErr' = Some(FinalizeFailed(HookError("finalize", p)))
              /\ UNCHANGED <<mdK, mdMeta>>
    /\ UNCHANGED <<plugins, mdInput, mdBase, mdLazy, received, ended>>
    /\ NotMd

\* Markdown::run, Ok(Markdown::from(string).with_options(self.options))
RunReturn ==
    /\ mdPc = "fin"
    /\ mdK = Len(plugins)
    /\ mdPc' = "ok"
    /\ UNCHANGED <<plugins, mdInput, mdK, mdBase, mdLazy, received, ended, hookLog, mdMeta, mdErr>>
    /\ NotMd

NextMd ==
    \/ \E kind \in StageKinds : Plugin(kind)
    \/ RunRead
    \/ RunPreprocess
    \/ RunParse
    \/ RunRemap
    \/ RunForEach
    \/ RunFinalize
    \/ RunReturn

(***************************************************************************)
(* taxonomy::renderer: render_site, render_collection and                  *)
(* Collection::par_map_items                                               *)
(*                                                                         *)
(* An item is its path (a number: paths compare as numbers do).  A list is *)
(* a List<Arc<Item>> at rest: its storage in push order and its ordering.  *)
(* An error is the sequence of its details from the outermost one to the   *)
(* innermost `prev`.  rayon's collect into a Result returns one of the     *)
(* errors of the stream, whichever it meets first.                         *)
(***************************************************************************)
RCollections == {1, 2}
ItemPaths == {1, 2}
DataPaths == {3, 4}
IndexPath == 0
DataDir == 7

NewList(items) == [items |-> items, ordering |-> None]

\* List::len
LenOf(l) == Len(l.items)

\* List::get on a list at rest
ListGet(l, i) ==
    LET j == Resolve(l.ordering, i)
    IN  IF j < Len(l.items) THEN Some(l.items[j + 1]) ELSE None

\* slice::sort_by with List::sort_by's comparator, which reads both items
\* through self.get and compares their paths.
RECURSIVE ListInsertSorted(_, _, _)
ListInsertSorted(l, a, s) ==
    IF s = <<>> THEN <<a>>
    ELSE IF ListGet(l, a)[1] < ListGet(l, s[Len(s)])[1]
         THEN Append(ListInsertSorted(l, a, SubSeq(s, 1, Len(s) - 1)), s[Len(s)])
         ELSE Append(s, a)

RECURSIVE ListSortedOrdering(_, _)
ListSortedOrdering(l, n) ==
    IF n = 0 THEN <<>> ELSE ListInsertSorted(l, n - 1, ListSortedOrdering(l, n - 1))

\* List::sort_by(|a, b| a.entry.path.cmp(&b.entry.path))
ListSortBy(l) == [l EXCEPT !.ordering = Some(ListSortedOrdering(l, LenOf(l)))]

\* list.par_iter(): the items in display order
ListParIter(l) == [n \in 1..LenOf(l) |-> ListGet(l, n - 1)[1]]

Visit(kind, item) == [kind |-> kind, item |-> item]

\* self.data.par_iter().flat_map(..): the items of every group as Kind::Datum
RECURSIVE DataContent(_)
DataContent(data) ==
    IF data = <<>> THEN <<>>
    ELSE [n \in 1..LenOf(Head(data).list) |->
             Visit(<<"Datum", Head(data).dir>>, ListParIter(Head(data).list)[n])]
         \o DataContent(Tail(data))

\* self.index.as_ref().into_par_iter()
IndexContent(index) ==
    IF index = None THEN <<>> ELSE << Visit(<<"Index", 0>>, index[1]) >>

\* An enumerate() over the storage, not over the display order.
ItemContentInPushOrder(items) ==
    [n \in 1..LenOf(items) |-> Visit(<<"Item", n - 1>>, items.items[n])]

\* self.items.par_iter().enumerate()
ItemContent(items) ==
    [n \in 1..LenOf(items) |-> Visit(<<"Item", n - 1>>, ListParIter(items)[n])]

\* A chain that starts with the index.
ParMapItemsIndexFirst(col) ==
    IndexContent(col.index) \o DataContent(col.data) \o ItemContent(col.items)

\* Collection::par_map_items: data_content.chain(index_content).chain(item_content)
ParMapItems(col) ==
    DataContent(col.data) \o IndexContent(col.index) \o ItemContent(col.items)

\* Results and errors
OkResult == [ok |-> TRUE, err |-> <<>>]
ErrResult(e) == [ok |-> FALSE, err |-> e]
ItemError(c, v) == << <<"item", c, v.item>> >>
AssetError == << <<"asset", 0, 0>> >>

\* collect() of a stream of Results: Ok when all are, else one of the errors.
Collect(results) ==
    IF \A c \in DOMAIN results : results[c].ok
    THEN {OkResult}
    ELSE {results[c] : c \in {x \in DOMAIN results : ~results[x].ok}}

\* render_site's match on the two streams
Combine(collectedRes, processRes) ==
    CASE collectedRes.ok /\ processRes.ok -> OkResult
      [] collectedRes.ok /\ ~processRes.ok -> processRes
      [] ~collectedRes.ok /\ processRes.ok -> collectedRes
      [] OTHER -> ErrResult(ErrorChain(collectedRes.err, processRes.err))

ItemLists ==
    {NewList(<<>>)} \cup {NewList(<<p>>) : p \in ItemPaths}
    \cup {NewList(<<pq[1], pq[2]>>) :
              pq \in {x \in ItemPaths \X ItemPaths : x[1] # x[2]}}
DataGroups ==
    {<<>>, << [dir |-> DataDir, list |-> NewList(<<3>>)] >>,
           << [dir |-> DataDir, list |-> NewList(<<4, 3>>)] >>}
Collections ==
    [index : {None, Some(IndexPath)}, data : DataGroups, items : ItemLists]

RenderAtRest ==
    /\ rSite = [c \in RCollections |-> [index |-> None, data |-> <<>>, items |-> NewList(<<>>)]]
    /\ rPc = "rest"
    /\ rRound = 0
    /\ sortedItems = [c \in RCollections |-> FALSE]
    /\ sortedData = [c \in RCollections |-> FALSE]
    /\ visits = [c \in RCollections |-> <<>>]
    /\ collected = [c \in RCollections |-> None]
    /\ streamRes = None
    /\ assetsRes = None
    /\ rResult = None

\* A Site as discovery leaves it: no list is sorted yet.
InitRenderVars ==
    /\ rSite \in [RCollections -> Collections]
    /\ rPc = "idle"
    /\ rRound = 0
    /\ sortedItems = [c \in RCollections |-> FALSE]
    /\ sortedData = [c \in RCollections |-> FALSE]
    /\ visits = [c \in RCollections |-> <<>>]
    /\ collected = [c \in RCollections |-> None]
    /\ streamRes = None
    /\ assetsRes = None
    /\ rResult = None

\* render_site is called
RenderSite ==
    /\ rPc \in {"idle", "returned"}
    /\ rRound < MaxRenders
    /\ rPc' = "running"
    /\ rRound' = rRound + 1
    /\ sortedItems' = [c \in RCollections |-> FALSE]
    /\ sortedData' = [c \in RCollections |-> FALSE]
    /\ visits' = [c \in RCollections |-> <<>>]
    /\ collected' = [c \in RCollections |-> None]
    /\ streamRes' = None
    /\ assetsRes' = None
    /\ rResult' = None
    /\ UNCHANGED rSite
    /\ NotRender

\* render_collection, first arm of the join: collection.items.sort_by(..)
SortItems(c) ==
    /\ rPc = "running"
    /\ ~sortedItems[c]
    /\ rSite' = [rSite EXCEPT ![c].items = ListSortBy(@)]
    /\ sortedItems' = [sortedItems EXCEPT ![c] = TRUE]
    /\ UNCHANGED <<rPc, rRound, sortedData, visits, collected, streamRes, assetsRes, rResult>>
    /\ NotRender

\* render_collection, second arm of the join: every data list is sorted
SortData(c) ==
    /\ rPc = "running"
    /\ ~sortedData[c]
    /\ rSite' = [rSite EXCEPT ![c].data =
                    [g \in DOMAIN @ |-> [@[g] EXCEPT !.list = ListSortBy(@)]]]
    /\ sortedData' = [sortedData EXCEPT ![c] = TRUE]
    /\ UNCHANGED <<rPc, rRound, sortedItems, visits, collected, streamRes, assetsRes, rResult>>
    /\ NotRender

\* render_collection after the join: collection.par_map_items(..), where any
\* render_collection_item call may fail
RenderCollection(c) ==
    /\ rPc = "running"
    /\ sortedItems[c] /\ sortedData[c]
    /\ collected[c] = None
    /\ visits' = [visits EXCEPT ![c] = ParMapItems(rSite[c])]
    /\ \E res \in {OkResult} \cup
                  {ErrResult(ItemError(c, ParMapItems(rSite[c])[n])) :
                       n \in 1..Len(ParMapItems(rSite[c]))} :
           collected' = [collected EXCEPT ![c] = Some(res)]
    /\ UNCHANGED <<rSite, rPc, rRound, sortedItems, sortedData, streamRes, assetsRes, rResult>>
    /\ NotRender

\* render_site, first arm of the join: the collect() of the collections
CollectCollections ==
    /\ rPc = "running"
    /\ streamRes = None
    /\ \A c \in RCollections : collected[c] # None
    /\ \E res \in Collect([c \in RCollections |-> collected[c][1]]) :
           streamRes' = Some(res)
    /\ UNCHANGED <<rSite, rPc, rRound, sortedItems, sortedData, visits, collected, assetsRes, rResult>>
    /\ NotRender

\* render_site, second arm of the join: site.items.par_iter().try_for_each(..)
RenderSiteItems ==
    /\ rPc = "running"
    /\ assetsRes = None
    /\ \E res \in {OkResult, ErrResult(AssetError)} : assetsRes' = Some(res)
    /\ UNCHANGED <<rSite, rPc, rRound, sortedItems, sortedData, visits, collected, streamRes, rResult>>
    /\ NotRender

\* render_site after the join: the match
RenderSiteReturn ==
    /\ rPc = "running"
    /\ streamRes # None /\ assetsRes # None
    /\ rResult' = Some(Combine(streamRes[1], assetsRes[1]))
    /\ rPc' = "returned"
    /\ UNCHANGED <<rSite, rRound, sortedItems, sortedData, visits, collected, streamRes, assetsRes>>
    /\ NotRender

NextRender ==
    \/ RenderSite
    \/ \E c \in RCollections : SortItems(c)
    \/ \E c \in RCollections : SortData(c)
    \/ \E c \in RCollections : RenderCollection(c)
    \/ CollectCollections
    \/ RenderSiteItems
    \/ RenderSiteReturn

(***************************************************************************)
(* fstree::FsTree::build_with and the lookups                              *)
(*                                                                         *)
(* The walker hands build_with every entry it finds, each with the         *)
(* metadata process_read_dir could read for it, or none.  It descends into *)
(* a directory by the directory's type, whether or not its metadata could  *)
(* be read; when the directory cannot be read either, nothing below it is  *)
(* yielded.                                                                *)
(***************************************************************************)
TreeCandidates == (1..Len(DirNames)) \X {3, 4}

\* The walker's entries for the files `files`, those at the places `skipped`
\* without metadata; with `pruned`, nothing below a directory without
\* metadata.
WalkerOutput(files, dirsFirst, skipped, pruned) ==
    LET found == <<DirEntryOf(RootPath, FALSE)>> \o Walk(1, files, dirsFirst)
        Below(n) == \E k \in skipped \cap (1..Len(found)) :
                        /\ ~found[k].is_file
                        /\ Len(found[k].path) < Len(found[n].path)
                        /\ SubSeq(found[n].path, 1, Len(found[k].path)) = found[k].path
        all == [n \in 1..Len(found) |->
                   [de |-> found[n], has_metadata |-> n \notin skipped, below |-> Below(n)]]
        Kept(f) == ~(pruned /\ f.below)
    IN  SelectSeq(all, Kept)

WalkerOutputs ==
    {WalkerOutput(files, dirsFirst, skipped, pruned) :
        files \in {f \in SUBSET TreeCandidates : Cardinality(f) <= MaxTreeFiles},
        dirsFirst \in BOOLEAN,
        skipped \in {s \in SUBSET (1..(1 + Len(DirNames) + MaxTreeFiles)) :
                        Cardinality(s) <= MaxSkipped},
        pruned \in BOOLEAN}

\* FsTree::root_id
RootId == 0

\* Path::join
Join(path, rel) == path \o rel

\* A lookup that joins the path to the tree's root, whatever `root` is.
GetIdFromTreeRoot(entries, root, path) ==
    MapGet(entries, Join(entries[RootId + 1].path, path))

\* FsTree::get_id
GetId(entries, root, path) ==
    LET r == IF root = None THEN RootId ELSE root[1]
    IN  MapGet(entries, Join(entries[r + 1].path, path))

\* FsTree::get_file_id
GetFileId(entries, root, path) ==
    LET id == GetId(entries, root, path)
    IN  IF id = None THEN None
        ELSE IF entries[id[1] + 1].is_file THEN id ELSE None

\* FsTree::get
GetEntry(entries, root, path) ==
    LET id == GetId(entries, root, path)
    IN  IF id = None THEN None ELSE Some(entries[id[1] + 1])

\* FsTree::search: the first entry of the breadth-first walk from the root
\* whose path, less the root's, is `path`.
RECURSIVE SearchFrom(_, _)
SearchFrom(it, path) ==
    LET r == BfsNext(it)
    IN  IF r.out = None THEN None
        ELSE IF path = SubSeq(Entry(r.out[1]).path, Len(Entry(RootId).path) + 1,
                              Len(Entry(r.out[1]).path))
             THEN r.out
             ELSE SearchFrom(r.it, path)
Search(path) == SearchFrom(IterBreadthFirst(RootId), path)

\* The paths the lookups are tried on: every entry's path relative to every
\* entry, and one that names nothing.
QueryPaths ==
    {PathRelativeTo(tree[ab[1]], tree[ab[2]])[1] :
        ab \in {x \in (1..Len(tree)) \X (1..Len(tree)) :
                    PathRelativeTo(tree[x[1]], tree[x[2]]) # None}}
    \cup { << <<"nothing">> >> }

\* The roots the lookups are tried from: None, and every entry.
QueryRoots == {None} \cup {Some(i - 1) : i \in 1..Len(tree)}

TreeAtRest ==
    /\ fsWalk = <<>>
    /\ fsNext = 0
    /\ fsPc = "rest"
    /\ fsGot = None
    /\ fsCalled = <<>>
    /\ fsErr = None
    /\ fsBfs = None
    /\ fsPe = None

\* FsTree::build_with, before its loop
InitTreeVars ==
    /\ fsWalk \in WalkerOutputs
    /\ fsNext = 0
    /\ fsPc = "building"
    /\ fsGot = None
    /\ fsCalled = <<>>
    /\ fsErr = None
    /\ fsBfs = None
    /\ fsPe = None
    /\ tree = <<>>
    /\ dPc = "rest"
    /\ bfs = IterBreadthFirst(0)
    /\ collections = <<>>
    /\ siteIndex = <<>>
    /\ dErr = None

\* A callback result that ends the loop without a return of its own.
CallbackIgnored(ok) == "building"

\* `callback(&mut tree, id)?`: where build_with stands after the callback
\* returned Ok (`ok`) or Err
CallbackTry(ok) == IF ok THEN "building" ELSE "failed"

\* FsTree::build_with, one turn of its loop: an entry without metadata is
\* filtered out; any other is inserted and the callback is run on its id,
\* and the callback's failure is returned at once.
BuildWithStep ==
    /\ fsPc = "building"
    /\ fsNext < Len(fsWalk)
    /\ fsNext' = fsNext + 1
    /\ IF fsWalk[fsNext + 1].has_metadata
       THEN /\ tree' = Insert(tree, fsWalk[fsNext + 1].de)
            /\ \E ok \in BOOLEAN :
                  /\ fsCalled' = Append(fsCalled, [id |-> Len(tree), len |-> Len(tree'), ok |-> ok])
                  /\ fsPc' = CallbackTry(ok)
                  /\ fsErr' = IF ok THEN None ELSE Some("callback")
       ELSE UNCHANGED <<tree, fsCalled, fsPc, fsErr>>
    /\ UNCHANGED <<fsWalk, fsGot, fsBfs, fsPe>>
    /\ NotTree

\* FsTree::build_with, after its loop
BuildWithReturn ==
    /\ fsPc = "building"
    /\ fsNext = Len(fsWalk)
    /\ fsPc' = IF Len(tree) = 0 THEN "failed" ELSE "built"
    /\ fsErr' = IF Len(tree) = 0 THEN Some("zero files") ELSE None
    /\ UNCHANGED <<tree, fsWalk, fsNext, fsGot, fsCalled, fsBfs, fsPe>>
    /\ NotTree

\* The tree is built and no read of it has been followed yet: the reads
\* change nothing, so one read is followed per tree.
TreeUnread ==
    /\ fsPc = "built"
    /\ fsGot = None
    /\ fsBfs = None
    /\ fsPe = None

\* FsTree::get_id, get_file_id, get (and search, from the tree's root) on
\* one root and path; the lookups change nothing, so one is followed per tree
Lookup(root, path) ==
    /\ TreeUnread
    /\ fsGot' = Some([root |-> root, path |-> path,
                      id |-> GetId(tree, root, path),
                      file_id |-> GetFileId(tree, root, path),
                      entry |-> GetEntry(tree, root, path),
                      found |-> Search(path)])
    /\ UNCHANGED <<tree, fsWalk, fsNext, fsPc, fsCalled, fsErr, fsBfs, fsPe>>
    /\ NotTree

\* FsTree::iter_breadth_first(root)
IterStart(root) ==
    /\ TreeUnread
    /\ fsBfs' = Some([start |-> root, it |-> IterBreadthFirst(root),
                      yielded |-> <<>>, ended |-> FALSE])
    /\ UNCHANGED <<tree, fsWalk, fsNext, fsPc, fsGot, fsCalled, fsErr, fsPe>>
    /\ NotTree

\* Bfs::next, one call
IterNext ==
    /\ fsBfs # None
    /\ ~fsBfs[1].ended
    /\ LET r == BfsNext(fsBfs[1].it)
       IN  fsBfs' = Some([fsBfs[1] EXCEPT
                            !.it = r.it,
                            !.yielded = IF r.out = None THEN @ ELSE Append(@, r.out[1]),
                            !.ended = (r.out = None)])
    /\ UNCHANGED <<tree, fsWalk, fsNext, fsPc, fsGot, fsCalled, fsErr, fsPe>>
    /\ NotTree

\* FsTree::path_exists(from, to), up to its loop
PathExistsCall(from, to) ==
    /\ TreeUnread
    /\ fsPe' = IF StartsWith(Entry(to).path, Entry(from).path)
               THEN Some([from |-> from, to |-> to, cur |-> to, turns |-> 0,
                          pc |-> "returned", res |-> TRUE])
               ELSE Some([from |-> from, to |-> to, cur |-> to, turns |-> 0,
                          pc |-> "loop", res |-> FALSE])
    /\ UNCHANGED <<tree, fsWalk, fsNext, fsPc, fsGot, fsCalled, fsErr, fsBfs>>
    /\ NotTree

\* FsTree::path_exists, one turn of its loop
PathExistsLoop ==
    /\ fsPe # None
    /\ fsPe[1].pc = "loop"
    /\ LET pe == fsPe[1]
           turned == [pe EXCEPT !.turns = @ + 1]
       IN  fsPe' =
             IF pe.from = pe.cur
             THEN Some([turned EXCEPT !.pc = "returned", !.res = TRUE])
             ELSE IF Entry(pe.from).depth >= Entry(pe.cur).depth
             THEN Some([turned EXCEPT !.pc = "returned", !.res = FALSE])
             ELSE IF Entry(pe.cur).parent = None
             THEN Some([turned EXCEPT !.pc = "returned", !.res = FALSE])
             ELSE Some([turned EXCEPT !.cur = Entry(pe.cur).parent[1]])
    /\ UNCHANGED <<tree, fsWalk, fsNext, fsPc, fsGot, fsCalled, fsErr, fsBfs>>
    /\ NotTree

\* The lookups that can be made: none before the tree is built.
Queries == IF TreeUnread THEN QueryRoots \X QueryPaths ELSE {}

\* The build, then one lookup in the tree it made.
NextTree ==
    \/ BuildWithStep
    \/ BuildWithReturn
    \/ \E q \in Queries : Lookup(q[1], q[2])

\* The build alone.
NextTreeBuild ==
    \/ BuildWithStep
    \/ BuildWithReturn

\* The build, then one breadth-first iteration over the tree it made.
NextTreeIter ==
    \/ BuildWithStep
    \/ BuildWithReturn
    \/ \E root \in 0..(Len(tree) - 1) : IterStart(root)
    \/ IterNext

\* The build, then one path_exists call on the tree it made.
NextTreePaths ==
    \/ BuildWithStep
    \/ BuildWithReturn
    \/ \E ft \in (0..(Len(tree) - 1)) \X (0..(Len(tree) - 1)) : PathExistsCall(ft[1], ft[2])
    \/ PathExistsLoop

(***************************************************************************)
(* taxonomy::Metadata: the typed reads get::<K>() and Key::read            *)
(*                                                                         *)
(* A Value is a record of its kind() and its content; a Num keeps its      *)
(* variant.  The meta keys are those of mockingbird's define_meta_key!.    *)
(***************************************************************************)
NullValue == [kind |-> "null", variant |-> "", v |-> 0]
BoolValue(b) == [kind |-> "boolean", variant |-> "", v |-> IF b THEN 1 ELSE 0]
NumValue(variant, n) == [kind |-> "number", variant |-> variant, v |-> n]
StringValue(n) == [kind |-> "string", variant |-> "", v |-> n]
PathValue(n) == [kind |-> "path", variant |-> "", v |-> n]

Values ==
    {NullValue, BoolValue(TRUE), NumValue("USize", 7), NumValue("I8", -1),
     StringValue(1), PathValue(1)}

\* define_meta_key!: each key's KEY and the type of its Value
Slug == [key |-> "slug", type |-> "Arc<str>"]
Draft == [key |-> "draft", type |-> "bool"]
Position == [key |-> "position", type |-> "usize"]
Data == [key |-> "data", type |-> "Value"]
MetaKeys == {Slug, Draft, Position, Data}
TypedKeys == {K.key : K \in MetaKeys}

\* Num::to_u128_lossy on a stored number: Ok for the unsigned variants and
\* for a signed variant that holds no negative, Err otherwise
ToU128Ok(value) == value.v >= 0

\* TryFrom<Value> for the key's type: Ok(x), or Err
TryInto(type, value) ==
    CASE type = "Arc<str>" ->
            IF value.kind = "string" THEN [ok |-> TRUE, x |-> value.v]
            ELSE [ok |-> FALSE, x |-> 0]
      [] type = "bool" ->
            IF value.kind = "boolean" THEN [ok |-> TRUE, x |-> value.v]
            ELSE [ok |-> FALSE, x |-> 0]
      [] type = "usize" ->
            IF value.kind = "number" /\ ToU128Ok(value)
            THEN [ok |-> TRUE, x |-> value.v]
            ELSE [ok |-> FALSE, x |-> 0]
      [] type = "Value" -> [ok |-> TRUE, x |-> value.v]

\* A typed read that reports a value of the wrong type as an absent key.
MetadataGetLenient(m, K) ==
    IF m[K.key] = None THEN [tag |-> "None", x |-> 0, value |-> None]
    ELSE IF TryInto(K.type, m[K.key][1]).ok
         THEN [tag |-> "Ok", x |-> TryInto(K.type, m[K.key][1]).x, value |-> None]
         ELSE [tag |-> "None", x |-> 0, value |-> None]

\* Metadata::get::<K>(): None, Some(Ok(x)) or Some(Err(value))
MetadataGet(m, K) ==
    LET value == m[K.key]
    IN  IF value = None THEN [tag |-> "None", x |-> 0, value |-> None]
        ELSE IF TryInto(K.type, value[1]).ok
             THEN [tag |-> "Ok", x |-> TryInto(K.type, value[1]).x, value |-> None]
             ELSE [tag |-> "Err", x |-> 0, value |-> value]

\* Source::read for Key: Ok(x), or one of its two errors
KeyReadOf(m, K) ==
    LET value == m[K.key]
    IN  IF value = None
        THEN [tag |-> "Err", x |-> 0, value |-> None,
              error |-> "attempted to read nonexistent metadata key"]
        ELSE IF TryInto(K.type, value[1]).ok
             THEN [tag |-> "Ok", x |-> TryInto(K.type, value[1]).x, value |-> None,
                   error |-> ""]
             ELSE [tag |-> "Err", x |-> 0, value |-> None,
                   error |-> "unexpected metadata value type"]

TypedAtRest ==
    /\ tMap = <<>>
    /\ tRead = None

\* Metadata::new()
InitTypedVars ==
    /\ tMap = [k \in TypedKeys |-> None]
    /\ tRead = None

\* Metadata::insert_raw(key, value), by one thread
TypedInsertRaw(k, value) ==
    /\ tMap' = [tMap EXCEPT ![k] = Some(value)]
    /\ tRead' = None
    /\ NotTyped

\* Metadata::get(K)
TypedGet(K) ==
    /\ tRead' = Some([op |-> "get", K |-> K, before |-> tMap,
                      out |-> MetadataGet(tMap, K)])
    /\ UNCHANGED tMap
    /\ NotTyped

\* Metadata::metakey(K).read()
TypedKeyRead(K) ==
    /\ tRead' = Some([op |-> "read", K |-> K, before |-> tMap,
                      out |-> KeyReadOf(tMap, K)])
    /\ UNCHANGED tMap
    /\ NotTyped

NextTyped ==
    \/ \E k \in TypedKeys, value \in Values : TypedInsertRaw(k, value)
    \/ \E K \in MetaKeys : TypedGet(K)
    \/ \E K \in MetaKeys : TypedKeyRead(K)

(***************************************************************************)
(* Mockingbird::build_site_items over the tree FsTree::build made          *)
(*                                                                         *)
(* A file name is the sequence of its dot-separated parts, so ".git" is    *)
(* <<"", "git">>.                                                          *)
(***************************************************************************)
AssetsDir == <<"assets">>
AssetsPath == Append(RootPath, AssetsDir)

\* What the input directory may hold at and below `assets`, in the
\* walker's order: each directory before what it holds.
AssetEntries ==
    << DirEntryOf(AssetsPath, FALSE),
       DirEntryOf(AssetsPath \o << <<"a", "css">> >>, TRUE),
       DirEntryOf(AssetsPath \o << <<"", "hidden">> >>, TRUE),
       DirEntryOf(AssetsPath \o << <<"img">> >>, FALSE),
       DirEntryOf(AssetsPath \o << <<"img">>, <<"b", "png">> >>, TRUE),
       DirEntryOf(AssetsPath \o << <<"img">>, <<"INCLUDES">> >>, TRUE),
       DirEntryOf(AssetsPath \o << <<"img">>, <<"include", "txt">> >>, TRUE),
       DirEntryOf(AssetsPath \o << <<"", "git">> >>, FALSE),
       DirEntryOf(AssetsPath \o << <<"", "git">>, <<"c", "txt">> >>, TRUE),
       DirEntryOf(AssetsPath \o << <<"Include">> >>, FALSE),
       DirEntryOf(AssetsPath \o << <<"Include">>, <<"d", "css">> >>, TRUE) >>

\* The walks FsTree::build may be given: the input directory, then a choice
\* of the entries above closed under parent directories, up to MaxSkipped of
\* them without metadata.
AssetChoices ==
    {c \in SUBSET (1..Len(AssetEntries)) :
        /\ Cardinality({n \in c : AssetEntries[n].is_file}) <= MaxAssetFiles
        /\ \A n \in c : AssetEntries[n].path # AssetsPath =>
              \E m \in c : AssetEntries[m].path = AssetEntries[n].parent_path}
AssetWalk(choice, skipped) ==
    LET Chosen(n) == n \in choice
        Yield(n) == [de |-> AssetEntries[n], has_metadata |-> n \notin skipped]
    IN  <<[de |-> DirEntryOf(RootPath, FALSE), has_metadata |-> TRUE]>>
        \o [k \in 1..Cardinality(choice) |->
               Yield(CHOOSE n \in choice : Cardinality({m \in choice : m < n}) = k - 1)]
AssetWalks ==
    {AssetWalk(choice, skipped) :
        choice \in AssetChoices,
        skipped \in {sk \in SUBSET (1..Len(AssetEntries)) : Cardinality(sk) <= MaxSkipped}}

\* FsTree::build: the loop of build_with over a whole walk
RECURSIVE BuildFrom(_)
BuildFrom(walk) ==
    IF walk = <<>> THEN <<>>
    ELSE LET before == BuildFrom(SubSeq(walk, 1, Len(walk) - 1))
             f == walk[Len(walk)]
         IN  IF f.has_metadata THEN Insert(before, f.de) ELSE before

\* str::to_ascii_lowercase, on the name parts in use
AsciiLower(part) ==
    CASE part = "INCLUDES" -> "includes"
      [] part = "Include" -> "include"
      [] OTHER -> part

\* str::eq_ignore_ascii_case
EqIgnoreAsciiCase(name, word) == Len(name) = 1 /\ AsciiLower(name[1]) = word

\* The closure `hidden` of build_site_items
Hidden(name) ==
    \/ name[1] = ""
    \/ EqIgnoreAsciiCase(name, "include")
    \/ EqIgnoreAsciiCase(name, "includes")

\* util::dircheck(&tree, None, ASSETS_DIR, false)
Dircheck(entries, path) ==
    LET e == GetEntry(entries, None, path)
    IN  IF e # None /\ ~e[1].is_file THEN Some(e[1].id) ELSE None

AssetsAtRest ==
    /\ aWalk = <<>>
    /\ aPc = "rest"
    /\ aRoot = None
    /\ aStack = <<>>
    /\ aItems = <<>>

\* Mockingbird::new: the tree of FsTree::build and the asset root
InitAssetVars ==
    /\ aWalk \in AssetWalks
    /\ tree = BuildFrom(aWalk)
    /\ aRoot = Dircheck(tree, <<AssetsDir>>)
    /\ aPc = "start"
    /\ aStack = <<>>
    /\ aItems = <<>>
    /\ dPc = "rest"
    /\ bfs = IterBreadthFirst(0)
    /\ collections = <<>>
    /\ siteIndex = <<>>
    /\ dErr = None

\* build_site_items up to the call of depth_first_search
BuildSiteItems ==
    /\ aPc = "start"
    /\ IF aRoot = None
       THEN aPc' = "done" /\ UNCHANGED aStack
       ELSE aPc' = "dfs" /\ aStack' = <<aRoot[1]>>
    /\ UNCHANGED <<tree, aWalk, aRoot, aItems>>
    /\ NotAssets

\* depth_first_search: one call of _dfs, the closure run on its entry and,
\* when the closure returned true, its children visited next, in their order
DfsVisit ==
    /\ aPc = "dfs"
    /\ aStack # <<>>
    /\ LET entry == Entry(Head(aStack))
           shown == ~Hidden(entry.file_name)
       IN  /\ aItems' = IF shown /\ entry.is_file
                        THEN Append(aItems,
                                    [id |-> entry.id,
                                     permapath |-> PathRelativeTo(entry, Entry(aRoot[1]))[1]])
                        ELSE aItems
           /\ aStack' = IF shown THEN entry.children \o Tail(aStack) ELSE Tail(aStack)
    /\ UNCHANGED <<tree, aWalk, aRoot, aPc>>
    /\ NotAssets

\* depth_first_search and build_site_items return
BuildSiteItemsReturn ==
    /\ aPc = "dfs"
    /\ aStack = <<>>
    /\ aPc' = "done"
    /\ UNCHANGED <<tree, aWalk, aRoot, aStack, aItems>>
    /\ NotAssets

NextAssets ==
    \/ BuildSiteItems
    \/ DfsVisit
    \/ BuildSiteItemsReturn

(***************************************************************************)
(* markdown::AutoHeading and markdown::HeadingAnchor                       *)
(*                                                                         *)
(* A string is the sequence of its characters.  An event is a record of    *)
(* its variant, its tag, the heading's id and its text.  AnchorIterator    *)
(* reads from HeadingIterator, which reads the parser's events.            *)
(***************************************************************************)
Chars(word) ==
    CASE word = "Intro" -> <<"I", "n", "t", "r", "o">>
      [] word = "Intro!" -> <<"I", "n", "t", "r", "o", "!">>
      [] word = "In" -> <<"I", "n">>
      [] word = "tro" -> <<"t", "r", "o">>
      [] word = "Set up" -> <<"S", "e", "t", " ", "u", "p">>
      [] word = "top" -> <<"t", "o", "p">>
      [] word = "x" -> <<"x">>
      [] word = "ab" -> <<"a", "b">>
      [] word = "c" -> <<"c">>

StartEvent(tag, id) == [type |-> "Start", tag |-> tag, id |-> id, text |-> <<>>]
EndEvent(tag) == [type |-> "End", tag |-> tag, id |-> None, text |-> <<>>]
TextEvent(word) == [type |-> "Text", tag |-> "", id |-> None, text |-> Chars(word)]
CodeEvent(word) == [type |-> "Code", tag |-> "", id |-> None, text |-> Chars(word)]
HtmlEvent(html) == [type |-> "Html", tag |-> "", id |-> None, text |-> html]

\* The events the parser yields for one block of a document
BlockKinds == {"intro", "intro!", "in-tro", "set up", "explicit", "para"}
BlockEvents(kind) ==
    CASE kind = "intro" ->
            <<StartEvent("Heading", None), TextEvent("Intro"), EndEvent("Heading")>>
      [] kind = "intro!" ->
            <<StartEvent("Heading", None), TextEvent("Intro!"), EndEvent("Heading")>>
      [] kind = "in-tro" ->
            <<StartEvent("Heading", None), TextEvent("In"), CodeEvent("tro"),
              EndEvent("Heading")>>
      [] kind = "set up" ->
            <<StartEvent("Heading", None), TextEvent("Set up"), EndEvent("Heading")>>
      [] kind = "explicit" ->
            <<StartEvent("Heading", Some(Chars("top"))), TextEvent("Intro"),
              EndEvent("Heading")>>
      [] kind = "para" ->
            <<StartEvent("Paragraph", None), TextEvent("x"), EndEvent("Paragraph")>>

RECURSIVE EventsOf(_)
EventsOf(blocks) ==
    IF blocks = <<>> THEN <<>>
    ELSE BlockEvents(Head(blocks)) \o EventsOf(Tail(blocks))

Documents ==
    {EventsOf(blocks) : blocks \in UNION {[1..n -> BlockKinds] : n \in 0..MaxBlocks}}

\* u8::to_ascii_lowercase, on the characters in use
ToAsciiLowercase(ch) ==
    CASE ch = "I" -> "i"
      [] ch = "S" -> "s"
      [] OTHER -> ch

\* b'a'..=b'z' | b'A'..=b'Z' | b'0'..=b'9' | b'_'
IsWordByte(ch) == ch \notin {" ", "!", "-"}

\* util::slugify: the loop over the characters, from `output` and `need_dash`
RECURSIVE SlugifyFrom(_, _, _)
SlugifyFrom(string, output, need_dash) ==
    IF string = <<>> THEN output
    ELSE IF IsWordByte(Head(string))
         THEN SlugifyFrom(Tail(string),
                          (IF need_dash THEN Append(output, "-") ELSE output)
                              \o <<ToAsciiLowercase(Head(string))>>,
                          FALSE)
         ELSE SlugifyFrom(Tail(string), output, output # <<>>)
Slugify(string) == SlugifyFrom(string, <<>>, FALSE)

\* write!(.., "{}", n) for a usize: its decimal digits
RECURSIVE Decimal(_)
Decimal(n) ==
    LET digit == <<"0", "1", "2", "3", "4", "5", "6", "7", "8", "9">>[(n % 10) + 1]
    IN  IF n < 10 THEN <<digit>> ELSE Append(Decimal(n \div 10), digit)

\* self.seen.get(&id)
SeenGet(seen, id) ==
    IF \E p \in seen : p[1] = id
    THEN Some((CHOOSE p \in seen : p[1] = id)[2])
    ELSE None

\* An id that is the slug, whatever was seen.
HeadingIdPlain(seen, slug) == slug

\* HeadingIterator::next: the id for a heading whose text has this slug
HeadingId(seen, slug) ==
    IF SeenGet(seen, slug) # None
    THEN slug \o <<"-">> \o Decimal(SeenGet(seen, slug)[1])
    ELSE slug

\* HeadingIterator::next: `seen` after a heading whose text has this slug
SeenAfter(seen, slug) ==
    IF SeenGet(seen, slug) # None THEN seen ELSE seen \cup {<<slug, 1>>}

\* The text of the Text and Code events among `events`
RECURSIVE HeadingText(_)
HeadingText(events) ==
    IF events = <<>> THEN <<>>
    ELSE (IF Head(events).type \in {"Text", "Code"} THEN Head(events).text ELSE <<>>)
         \o HeadingText(Tail(events))

IsHeadingEnd(event) == event.type = "End" /\ event.tag = "Heading"

\* HeadingIterator::next on the parser events `doc`
HeadingIteratorNext(doc, h) ==
    IF h.stack # <<>>
    THEN [h |-> [h EXCEPT !.stack = Tail(@)], out |-> Some(Head(h.stack))]
    ELSE IF h.pos >= Len(doc)
    THEN [h |-> h, out |-> None]
    ELSE LET event == doc[h.pos + 1]
         IN  IF event.type = "Start" /\ event.tag = "Heading" /\ event.id = None
             THEN LET ends == {k \in (h.pos + 2)..Len(doc) : IsHeadingEnd(doc[k])}
                  IN  IF ends = {}
                      THEN [h |-> [h EXCEPT !.pos = Len(doc)], out |-> None]
                      ELSE LET end == CHOOSE k \in ends : \A j \in ends : k <= j
                               inside == SubSeq(doc, h.pos + 2, end - 1)
                               slug == Slugify(HeadingText(inside))
                           IN  [h |-> [pos |-> end,
                                       stack |-> Append(inside, EndEvent("Heading")),
                                       seen |-> SeenAfter(h.seen, slug)],
                                out |-> Some(StartEvent("Heading",
                                                        Some(HeadingId(h.seen, slug))))]
             ELSE [h |-> [h EXCEPT !.pos = @ + 1], out |-> Some(event)]

\* The anchor element AnchorIterator makes for an id
AnchorHtml(id) ==
    <<"<a class=\"anchor\" title=\"anchor\" href=\"#">> \o id \o <<"\"></a>">>

\* AnchorIterator::next, reading from the HeadingIterator
AnchorIteratorNext(doc, pending, h) ==
    IF pending # None
    THEN [pending |-> None, h |-> h, out |-> Some(HtmlEvent(AnchorHtml(pending[1])))]
    ELSE LET r == HeadingIteratorNext(doc, h)
         IN  IF r.out = None
             THEN [pending |-> None, h |-> r.h, out |-> None]
             ELSE [pending |-> IF /\ r.out[1].type = "Start"
                                  /\ r.out[1].tag = "Heading"
                                  /\ r.out[1].id # None
                               THEN r.out[1].id ELSE None,
                   h |-> r.h, out |-> r.out]

HeadingAtRest ==
    /\ hDoc = <<>>
    /\ hIter = [pos |-> 0, stack |-> <<>>, seen |-> {}]
    /\ hPending = None
    /\ hOut = <<>>
    /\ hEnded = FALSE

\* AutoHeading::remap over the parser, HeadingAnchor::remap over that
InitHeadingVars ==
    /\ hDoc \in Documents
    /\ hIter = [pos |-> 0, stack |-> <<>>, seen |-> {}]
    /\ hPending = None
    /\ hOut = <<>>
    /\ hEnded = FALSE

\* One call of next() on the AnchorIterator by the stage that reads it
HeadingPull ==
    /\ ~hEnded
    /\ LET r == AnchorIteratorNext(hDoc, hPending, hIter)
       IN  /\ hIter' = r.h
           /\ hPending' = r.pending
           /\ hOut' = IF r.out = None THEN hOut ELSE Append(hOut, r.out[1])
           /\ hEnded' = (r.out = None)
    /\ UNCHANGED hDoc
    /\ NotHeading

NextHeading == HeadingPull

(***************************************************************************)
(* markdown::Snippet                                                       *)
(*                                                                         *)
(* The snippet is the sequence of the pieces written to it: a tag is one   *)
(* piece, a text is one piece per character.                               *)
(***************************************************************************)
SoftBreakEvent == [type |-> "SoftBreak", tag |-> "", id |-> None, text |-> <<>>]
HardBreakEvent == [type |-> "HardBreak", tag |-> "", id |-> None, text |-> <<>>]

\* The events the stage reads for one block of a document
SnippetBlockKinds == {"para", "em", "code", "heading", "item", "breaks"}
SnippetBlockEvents(kind) ==
    CASE kind = "para" ->
            <<StartEvent("Paragraph", None), TextEvent("ab"), EndEvent("Paragraph")>>
      [] kind = "em" ->
            <<StartEvent("Paragraph", None), TextEvent("x"),
              StartEvent("Emphasis", None), TextEvent("c"), EndEvent("Emphasis"),
              EndEvent("Paragraph")>>
      [] kind = "code" ->
            <<StartEvent("BlockQuote", None), StartEvent("Paragraph", None),
              CodeEvent("c"), EndEvent("Paragraph"), EndEvent("BlockQuote")>>
      [] kind = "heading" ->
            <<StartEvent("Heading", None), TextEvent("Intro"), EndEvent("Heading")>>
      [] kind = "item" ->
            <<StartEvent("List", None), StartEvent("Item", None), TextEvent("x"),
              StartEvent("Strong", None), TextEvent("c"), EndEvent("Strong"),
              EndEvent("Item"), EndEvent("List")>>
      [] kind = "breaks" ->
            <<StartEvent("Paragraph", None), TextEvent("x"), SoftBreakEvent,
              TextEvent("c"), HardBreakEvent, EndEvent("Paragraph")>>

RECURSIVE SnippetEventsOf(_)
SnippetEventsOf(blocks) ==
    IF blocks = <<>> THEN <<>>
    ELSE SnippetBlockEvents(Head(blocks)) \o SnippetEventsOf(Tail(blocks))

SnippetDocuments ==
    {SnippetEventsOf(blocks) :
        blocks \in UNION {[1..n -> SnippetBlockKinds] : n \in 0..MaxBlocks}}

\* Snippet::new(output, length): no length, a short one, and mockingbird's
ShortLength == 2
MockingbirdLength == 250
SnippetLengths == {0, ShortLength, MockingbirdLength}

\* The tags SnippetIterator::next writes: the opening and the closing piece
CapturedTags == {"Paragraph", "Emphasis", "Strong", "Strikethrough", "BlockQuote"}
OpenPiece(tag) ==
    CASE tag = "Paragraph" -> "<p>"
      [] tag = "Emphasis" -> "<em>"
      [] tag = "Strong" -> "<strong>"
      [] tag = "Strikethrough" -> "<strike>"
      [] tag = "BlockQuote" -> "<blockquote>"
ClosePiece(tag) ==
    CASE tag = "Paragraph" -> "</p>"
      [] tag = "Emphasis" -> "</em>"
      [] tag = "Strong" -> "</strong>"
      [] tag = "Strikethrough" -> "</strike>"
      [] tag = "BlockQuote" -> "</blockquote>"

\* An iterator that is never done when it is made.
DoneAtRemapNever(length) == FALSE

\* Snippet::remap: `done: self.length == 0`
DoneAtRemap(length) == length = 0

\* capture.last().copied().unwrap_or_default()
CaptureLast(capture) == IF capture = <<>> THEN FALSE ELSE capture[Len(capture)]

\* The macro capture!: what it writes and the length it adds, the iterator
\* not done
CapturePieces(event) ==
    CASE event.type = "SoftBreak" -> [pieces |-> <<" ">>, len |-> 1]
      [] event.type = "HardBreak" -> [pieces |-> <<"<br>">>, len |-> 0]
      [] event.type = "Code" ->
            [pieces |-> <<"<code>">> \o event.text \o <<"</code>">>,
             len |-> Len(event.text)]
      [] event.type = "Text" -> [pieces |-> event.text, len |-> Len(event.text)]

SnippetAtRest ==
    /\ sDoc = <<>>
    /\ sMin = 0
    /\ sPos = 0
    /\ sSnippet = <<>>
    /\ sCapture = <<>>
    /\ sLen = 0
    /\ sDone = FALSE
    /\ sPc = "rest"
    /\ sEarly = FALSE
    /\ sWritten = None
    /\ sYielded = <<>>

\* A close! that looks at the length alone.
StopAtCloseByLength(capture, len, min) == len >= min

\* The macro close!, after the pop: whether it sets `done`
StopAtClose(capture, len, min) == capture = <<>> /\ len >= min

\* Snippet::new and Snippet::remap
InitSnippetVars ==
    /\ sDoc \in SnippetDocuments
    /\ sMin \in SnippetLengths
    /\ sPos = 0
    /\ sSnippet = <<>>
    /\ sCapture = <<>>
    /\ sLen = 0
    /\ sDone = DoneAtRemap(sMin)
    /\ sPc = "iter"
    /\ sEarly = FALSE
    /\ sWritten = None
    /\ sYielded = <<>>

\* SnippetIterator::next, `inner` yielding an event
SnippetNext ==
    /\ sPc = "iter"
    /\ sPos < Len(sDoc)
    /\ sPos' = sPos + 1
    /\ LET event == sDoc[sPos + 1]
           popped == IF sCapture = <<>> THEN <<>>
                     ELSE SubSeq(sCapture, 1, Len(sCapture) - 1)
       IN  IF sDone
           THEN UNCHANGED <<sSnippet, sCapture, sLen, sDone, sEarly>>
           ELSE CASE event.type = "Start" ->
                       /\ sSnippet' = IF event.tag \in CapturedTags
                                      THEN Append(sSnippet, OpenPiece(event.tag))
                                      ELSE sSnippet
                       /\ sCapture' = Append(sCapture, event.tag \in CapturedTags)
                       /\ UNCHANGED <<sLen, sDone, sEarly>>
                  [] event.type = "End" ->
                       /\ sSnippet' = IF event.tag \in CapturedTags
                                      THEN Append(sSnippet, ClosePiece(event.tag))
                                      ELSE sSnippet
                       /\ sCapture' = popped
                       /\ sDone' = StopAtClose(popped, sLen, sMin)
                       /\ sEarly' = StopAtClose(popped, sLen, sMin)
                       /\ UNCHANGED sLen
                  [] event.type \in {"SoftBreak", "HardBreak", "Code", "Text"} ->
                       /\ IF CaptureLast(sCapture)
                          THEN /\ sSnippet' = sSnippet \o CapturePieces(event).pieces
                               /\ sLen' = sLen + CapturePieces(event).len
                          ELSE UNCHANGED <<sSnippet, sLen>>
                       /\ UNCHANGED <<sCapture, sDone, sEarly>>
                  [] OTHER -> UNCHANGED <<sSnippet, sCapture, sLen, sDone, sEarly>>
    /\ sYielded' = Append(sYielded, sDoc[sPos + 1])
    /\ UNCHANGED <<sDoc, sMin, sPc, sWritten>>
    /\ NotSnippet

\* SnippetIterator::next, `inner` ended
SnippetEnd ==
    /\ sPc = "iter"
    /\ sPos = Len(sDoc)
    /\ sPc' = "drained"
    /\ UNCHANGED <<sDoc, sMin, sPos, sSnippet, sCapture, sLen, sDone, sEarly, sWritten,
                   sYielded>>
    /\ NotSnippet

\* Snippet::finalize
SnippetFinalize ==
    /\ sPc = "drained"
    /\ sWritten' = Some(sSnippet)
    /\ sSnippet' = <<>>
    /\ sPc' = "finalized"
    /\ UNCHANGED <<sDoc, sMin, sPos, sCapture, sLen, sDone, sEarly, sYielded>>
    /\ NotSnippet

NextSnippet ==
    \/ SnippetNext
    \/ SnippetEnd
    \/ SnippetFinalize

(***************************************************************************)
(* value::Num                                                              *)
(*                                                                         *)
(* A Num is a record of its variant and the integer it holds.  The 8-, 16- *)
(* and 32-bit variants are modelled, each at the ends and in the middle of *)
(* its range; the wider variants take the same match arms.                 *)
(***************************************************************************)
Num(variant, v) == [variant |-> variant, v |-> v]
UnsignedVariants == {"U8", "U16"}
SignedVariants == {"I8", "I16", "I32"}
VariantValues(variant) ==
    CASE variant = "U8" -> {0, 1, 127, 128, 255}
      [] variant = "U16" -> {0, 1, 255, 256, 65535}
      [] variant = "I8" -> {-128, -1, 0, 1, 127}
      [] variant = "I16" -> {-32768, -129, -1, 0, 128, 32767}
      [] variant = "I32" -> {-2147483647, -32769, -1, 0, 255, 65535, 2147483647}
Nums ==
    UNION {{Num(variant, v) : v \in VariantValues(variant)} :
              variant \in UnsignedVariants \cup SignedVariants}

\* Num::to_u128_strict: Err for every signed variant
ToU128Strict(n) ==
    IF n.variant \in UnsignedVariants THEN [ok |-> TRUE, v |-> n.v]
    ELSE [ok |-> FALSE, v |-> n.v]

\* Num::to_u128_lossy: Ok(v as u128), or Err(v as i128) for a negative
ToU128Lossy(n) ==
    IF n.variant \in UnsignedVariants \/ n.v >= 0 THEN [ok |-> TRUE, v |-> n.v]
    ELSE [ok |-> FALSE, v |-> n.v]

\* PartialEq for Num
NumEq(a, b) ==
    LET x == ToU128Lossy(a)
        y == ToU128Lossy(b)
    IN  IF x.ok = y.ok THEN x.v = y.v ELSE FALSE

\* u128::cmp and i128::cmp
IntCmp(x, y) == IF x < y THEN "Less" ELSE IF x = y THEN "Equal" ELSE "Greater"

\* Ord for Num
NumCmp(a, b) ==
    LET x == ToU128Lossy(a)
        y == ToU128Lossy(b)
    IN  CASE x.ok /\ y.ok -> IntCmp(x.v, y.v)
          [] x.ok /\ ~y.ok -> "Greater"
          [] ~x.ok /\ y.ok -> "Less"
          [] ~x.ok /\ ~y.ok -> IntCmp(x.v, y.v)

\* u128::hash and i128::hash: the sixteen bytes given to the hasher, lowest
\* first, a negative in two's complement
HashBytes(v) ==
    [i \in 0..15 |->
        IF i < 3 THEN (v \div (256 ^ i)) % 256
        ELSE IF i = 3 THEN (v \div 16777216) % 256
        ELSE IF v < 0 THEN 255 ELSE 0]

\* Hash for Num
NumHash(n) == HashBytes(ToU128Lossy(n).v)

NumAtRest ==
    /\ numA = Num("U8", 0)
    /\ numB = Num("U8", 0)
    /\ numOut = None

InitNumVars ==
    /\ numA \in Nums
    /\ numB \in Nums
    /\ numOut = None

\* a == b, a.cmp(&b), b.cmp(&a), and a and b hashed
NumCompare ==
    /\ numOut = None
    /\ numOut' = Some([eq |-> NumEq(numA, numB),
                       cmp |-> NumCmp(numA, numB),
                       rev |-> NumCmp(numB, numA),
                       hashA |-> NumHash(numA),
                       hashB |-> NumHash(numB)])
    /\ UNCHANGED <<numA, numB>>
    /\ NotNum

NextNum == NumCompare

(***************************************************************************)
(* url::UrlBuf::make_relative                                              *)
(*                                                                         *)
(* A URL is the sequence of its pieces: each of ':', '/', '?', '#' is a    *)
(* piece of its own, and so is each run of other characters.               *)
(***************************************************************************)
UrlPrefixes ==
    { <<>>, <<"https", ":">>, <<"mailto", ":">>, <<"foo", "#", "bar", ":">>,
      <<"foo", "?", "bar", ":">> }
UrlSlashes == { <<>>, <<"/">>, <<"/", "/">>, <<"/", "/", "/">> }
UrlRests ==
    { <<>>, <<"foo">>, <<"rocket.rs", "/", "foo">>, <<"foo", "/">>,
      <<"foo@bar.com">>, <<"foo", ":", "bar">> }
Urls == {p \o sl \o r : p \in UrlPrefixes, sl \in UrlSlashes, r \in UrlRests}

\* memchr::memchr3(b':', b'?', b'/', bytes): the first place of one of them
Memchr3(url) ==
    LET at == {i \in 1..Len(url) : url[i] \in {":", "?", "/"}}
    IN  IF at = {} THEN None ELSE Some(CHOOSE i \in at : \A j \in at : i <= j)

\* Url::scheme
Scheme(url) ==
    LET i == Memchr3(url)
    IN  IF i # None /\ url[i[1]] = ":"
        THEN IF \E j \in 1..(i[1] - 1) : url[j] = "#"
             THEN None
             ELSE Some(SubSeq(url, 1, i[1] - 1))
        ELSE None

\* str::trim_start_matches('/')
RECURSIVE TrimStartSlashes(_)
TrimStartSlashes(url) ==
    IF url # <<>> /\ Head(url) = "/" THEN TrimStartSlashes(Tail(url)) ELSE url

\* Url::relative_part
RelativePart(url) ==
    TrimStartSlashes(IF Scheme(url) # None
                     THEN SubSeq(url, Len(Scheme(url)[1]) + 2, Len(url))
                     ELSE url)

\* Url::is_absolute
IsAbsolute(url) == (url # <<>> /\ Head(url) = "/") \/ Scheme(url) # None

UrlAtRest ==
    /\ urlFrom = <<>>
    /\ urlBuf = <<>>
    /\ urlPc = "rest"

\* UrlBuf::from
InitUrlVars ==
    /\ urlFrom \in Urls
    /\ urlBuf = urlFrom
    /\ urlPc = "made"

\* UrlBuf::make_relative
MakeRelative ==
    /\ urlPc = "made"
    /\ urlBuf' = IF Len(RelativePart(urlBuf)) # Len(urlBuf)
                 THEN RelativePart(urlBuf)
                 ELSE urlBuf
    /\ urlPc' = "relative"
    /\ UNCHANGED urlFrom
    /\ NotUrl

NextUrl == MakeRelative

(***************************************************************************)
(* markdown::Admonition::preprocess                                        *)
(*                                                                         *)
(* A string is the sequence of its pieces: '!', ':', a newline and a space *)
(* are each a piece of their own, and so is each word.  Offsets count      *)
(* pieces from 0, as the source counts bytes.                              *)
(***************************************************************************)
AdLineKinds ==
    { <<"!", "note", ":", " ", "Title", "\n">>,
      <<"!", "note", "\n">>,
      <<" ", " ", "Body", " ", "line", "\n">>,
      <<"\n">>,
      <<"After", "\n">>,
      <<"a", "!", "b", "\n">> }
RECURSIVE AdConcat(_)
AdConcat(lines) == IF lines = <<>> THEN <<>> ELSE Head(lines) \o AdConcat(Tail(lines))
\* The inputs: some lines, the last one with or without its newline.
AdInputs ==
    LET whole == {AdConcat(lines) :
                     lines \in UNION {[1..n -> AdLineKinds] : n \in 0..MaxLines}}
    IN  whole \cup {SubSeq(s, 1, Len(s) - 1) : s \in whole \ {<<>>}}

\* &s[a..b]
Slice(s, a, b) == SubSeq(s, a + 1, b)

\* memchr::memchr and memchr2 over &s[from..]: the offset in s of the first
\* piece that is one of `needles`
MemchrFrom(needles, s, from) ==
    LET at == {i \in from..(Len(s) - 1) : s[i + 1] \in needles}
    IN  IF at = {} THEN None ELSE Some(CHOOSE i \in at : \A j \in at : i <= j)

\* str::trim
RECURSIVE TrimStart(_)
TrimStart(s) == IF s # <<>> /\ Head(s) \in {" ", "\n"} THEN TrimStart(Tail(s)) ELSE s
RECURSIVE TrimEnd(_)
TrimEnd(s) ==
    IF s # <<>> /\ s[Len(s)] \in {" ", "\n"} THEN TrimEnd(SubSeq(s, 1, Len(s) - 1)) ELSE s
Trim(s) == TrimEnd(TrimStart(s))

\* is_line_start
IsLineStart(i, string) == i = 0 \/ string[i] = "\n"

\* The loop of parse_admonition_header: the offset after the first newline
\* at or after k that a newline follows, or the end.
HeaderEndAtFirstNewline(string, k) ==
    LET j == MemchrFrom({"\n"}, string, k)
    IN  IF j = None THEN Len(string) ELSE j[1] + 1
RECURSIVE HeaderEnd(_, _)
HeaderEnd(string, k) ==
    LET j == MemchrFrom({"\n"}, string, k)
    IN  IF j = None THEN Len(string)
        ELSE IF j[1] + 1 < Len(string) /\ string[j[1] + 2] = "\n" THEN j[1] + 1
             ELSE HeaderEnd(string, j[1] + 1)

\* parse_admonition_header
ParseAdmonitionHeader(string) ==
    LET i == MemchrFrom({":", "\n"}, string, 0)
    IN  IF i # None /\ string[i[1] + 1] = ":"
        THEN LET end == HeaderEnd(string, i[1] + 1)
             IN  [name |-> Trim(Slice(string, 0, i[1])),
                  title |-> Trim(Slice(string, i[1] + 1, end)),
                  h_end |-> end]
        ELSE IF i # None
             THEN [name |-> Trim(Slice(string, 0, i[1])), title |-> <<>>, h_end |-> i[1] + 1]
             ELSE [name |-> Trim(string), title |-> <<>>, h_end |-> Len(string)]

\* find_admonition_end, from the offset p of `bytes`
RECURSIVE FindAdmonitionEndFrom(_, _)
FindAdmonitionEndFrom(bytes, p) ==
    IF p < Len(bytes) /\ bytes[p + 1] = "\n" THEN FindAdmonitionEndFrom(bytes, p + 1)
    ELSE IF ~(p + 1 < Len(bytes) /\ bytes[p + 1] = " " /\ bytes[p + 2] = " ") THEN p
    ELSE LET i == MemchrFrom({"\n"}, bytes, p)
         IN  IF i = None THEN Len(bytes) ELSE FindAdmonitionEndFrom(bytes, i[1] + 1)
FindAdmonitionEnd(bytes) == FindAdmonitionEndFrom(bytes, 0)

\* What the writeln! and write! calls append for one admonition.
AdmonitionHtml(name, title, inner) ==
    <<"<div class=admonition ">> \o name \o <<">", "\n">>
    \o <<"<span class=title ">> \o name \o <<">">>
    \o <<"\n", "\n">> \o title \o <<"\n", "\n", "</span>", "\n", "\n">>
    \o inner \o <<"\n", "</div>", "\n", "\n">>

\* The else branch of the loop, `output` owned: push_str(&input[j..(k + 1)]).
PushSkipped(out, input, j, k) == out \o Slice(input, j, k + 1)

AdmonitionAtRest ==
    /\ adInput = <<>>
    /\ adPos = 0
    /\ adOut = <<>>
    /\ adOwned = FALSE
    /\ adPc = "rest"
    /\ adSpans = <<>>

\* Admonition::preprocess, before its loop
InitAdmonitionVars ==
    /\ adInput \in AdInputs
    /\ adPos = 0
    /\ adOut = adInput
    /\ adOwned = FALSE
    /\ adPc = "loop"
    /\ adSpans = <<>>

\* Admonition::preprocess, one turn of `while let Some(i) = memchr(b'!', bytes)`
AdmonitionTurn ==
    /\ adPc = "loop"
    /\ MemchrFrom({"!"}, adInput, adPos) # None
    /\ LET k == MemchrFrom({"!"}, adInput, adPos)[1]
           header == ParseAdmonitionHeader(Slice(adInput, k + 1, Len(adInput)))
           start == k + 1 + header.h_end
           end == FindAdmonitionEnd(Slice(adInput, start, Len(adInput)))
           before == IF adOwned THEN adOut \o Slice(adInput, adPos, k)
                     ELSE Slice(adInput, 0, k)
       IN  IF IsLineStart(k, adInput)
           THEN /\ adOut' = before \o AdmonitionHtml(header.name, header.title,
                                                     Slice(adInput, start, start + end))
                /\ adOwned' = TRUE
                /\ adPos' = start + end
                /\ adSpans' = Append(adSpans, [from |-> k, body |-> start, to |-> start + end,
                                               name |-> header.name, title |-> header.title])
           ELSE /\ adOut' = IF adOwned THEN PushSkipped(adOut, adInput, adPos, k) ELSE adOut
                /\ adPos' = k + 1
                /\ UNCHANGED <<adOwned, adSpans>>
    /\ UNCHANGED <<adInput, adPc>>
    /\ NotAdmonition

\* Admonition::preprocess, after its loop
AdmonitionReturn ==
    /\ adPc = "loop"
    /\ MemchrFrom({"!"}, adInput, adPos) = None
    /\ adOut' = IF adOwned /\ adPos < Len(adInput)
                THEN adOut \o Slice(adInput, adPos, Len(adInput))
                ELSE adOut
    /\ adPc' = "returned"
    /\ UNCHANGED <<adInput, adPos, adOwned, adSpans>>
    /\ NotAdmonition

NextAdmonition ==
    \/ AdmonitionTurn
    \/ AdmonitionReturn

(***************************************************************************)
(* Mockingbird::discover over the tree FsTree::build made of a walk in     *)
(* which the metadata of some entries could not be read.  The input        *)
(* directory and its content directory are read, or Mockingbird::new fails.*)
(***************************************************************************)
DiscWalks ==
    {WalkerOutput(files, dirsFirst, skipped, FALSE) :
        files \in {f \in SUBSET Candidates : Cardinality(f) <= MaxTreeFiles},
        dirsFirst \in BOOLEAN,
        skipped \in {s \in SUBSET (3..(1 + Len(DirNames) + MaxTreeFiles)) :
                        Cardinality(s) <= MaxSkipped}}

\* Mockingbird::new has built the tree; discover has not been called.
InitDiscWalkVars ==
    /\ tree \in {BuildFrom(walk) : walk \in DiscWalks}
    /\ dPc = "start"
    /\ bfs = IterBreadthFirst(0)
    /\ collections = <<>>
    /\ siteIndex = <<>>
    /\ dErr = None

(***************************************************************************)
(* error::Error::chain and error::Chainable                                *)
(*                                                                         *)
(* An error is the sequence of its details from the outermost one to the   *)
(* innermost `prev`, as in the renderer.                                   *)
(***************************************************************************)
ChainDetails == {"render", "io", "parse"}
ChainErrors == UNION {[1..n -> ChainDetails] : n \in 1..MaxChain}
ChainResults ==
    {[ok |-> TRUE, v |-> v, err |-> <<>>] : v \in {"unit", "page"}}
    \cup {[ok |-> FALSE, v |-> "none", err |-> e] : e \in ChainErrors}

\* Chainable::chain for Result<T, E>
ResultChain(self, other) ==
    IF self.ok THEN self
    ELSE [ok |-> FALSE, v |-> "none", err |-> ErrorChain(self.err, other)]

ChainAtRest ==
    /\ chSelf = [ok |-> TRUE, v |-> "unit", err |-> <<>>]
    /\ chOther = <<>>
    /\ chOut = None

InitChainVars ==
    /\ chSelf \in ChainResults
    /\ chOther \in ChainErrors
    /\ chOut = None

\* e.chain(other) on the error of an Err
ErrorChainCall ==
    /\ chOut = None
    /\ ~chSelf.ok
    /\ chOut' = Some([call |-> "Error::chain", err |-> ErrorChain(chSelf.err, chOther)])
    /\ UNCHANGED <<chSelf, chOther>>
    /\ NotChain

\* result.chain(other)
ResultChainCall ==
    /\ chOut = None
    /\ chOut' = Some([call |-> "Result::chain", res |-> ResultChain(chSelf, chOther)])
    /\ UNCHANGED <<chSelf, chOther>>
    /\ NotChain

NextChain ==
    \/ ErrorChainCall
    \/ ResultChainCall

(***************************************************************************)
(* value::list::Slice and SliceIter                                        *)
(*                                                                         *)
(* A SliceIter over a List at rest: List::iter() makes it over the whole   *)
(* list, IterProducer::into_iter over the part split_at left it.  An item  *)
(* is its path; the items of a list are distinct.                          *)
(***************************************************************************)
RECURSIVE Perms(_)
Perms(n) ==
    IF n = 0 THEN {<<>>}
    ELSE {[i \in 1..n |-> IF i < k THEN p[i] ELSE IF i = k THEN n - 1 ELSE p[i - 1]] :
              p \in Perms(n - 1), k \in 1..n}

IterLists ==
    UNION {{[items |-> [i \in 1..n |-> i], ordering |-> ord] :
                ord \in {None} \cup {Some(p) : p \in Perms(n)}} : n \in 0..MaxIterLen}

\* Slice::new
SliceNew(list, start, end) == [start |-> start, end |-> end]

\* Slice::len
SliceLen(slice) == slice.end - slice.start

\* Slice::get
SliceGet(list, slice, i) ==
    LET j == slice.start + i
    IN  IF j < slice.end /\ j >= slice.start THEN ListGet(list, j) ELSE None

\* SliceIter::next_back: the new `next` and the item returned.
SliceIterNextBack(list, slice, next) ==
    IF next > 0
    THEN [next |-> next - 1, item |-> SliceGet(list, slice, next - 1)]
    ELSE [next |-> next, item |-> None]

\* SliceIter::next: the new `next` and the item returned.
SliceIterNext(list, slice, next) ==
    IF SliceGet(list, slice, next) = None
    THEN [next |-> next, item |-> None]
    ELSE [next |-> next + 1, item |-> SliceGet(list, slice, next)]

\* SliceIter::size_hint
SliceIterSizeHint(slice, next) == SliceLen(slice) - next

IterAtRest ==
    /\ itList = [items |-> <<>>, ordering |-> None]
    /\ itSlice = SliceNew(itList, 0, 0)
    /\ itNext = 0
    /\ itCalls = <<>>

\* List::iter, and Slice::into_iter on a part of the list
InitIterVars ==
    /\ itList \in IterLists
    /\ \E start \in 0..MaxIterLen, end \in 0..MaxIterLen :
          /\ start <= end
          /\ end <= Len(itList.items)
          /\ itSlice = SliceNew(itList, start, end)
    /\ itNext = 0
    /\ itCalls = <<>>

\* iter.next()
IterNextCall ==
    /\ Len(itCalls) < MaxIterCalls
    /\ LET r == SliceIterNext(itList, itSlice, itNext)
       IN  /\ itNext' = r.next
           /\ itCalls' = Append(itCalls, [call |-> "next", item |-> r.item])
    /\ UNCHANGED <<itList, itSlice>>
    /\ NotIter

\* iter.next_back()
IterNextBackCall ==
    /\ Len(itCalls) < MaxIterCalls
    /\ LET r == SliceIterNextBack(itList, itSlice, itNext)
       IN  /\ itNext' = r.next
           /\ itCalls' = Append(itCalls, [call |-> "next_back", item |-> r.item])
    /\ UNCHANGED <<itList, itSlice>>
    /\ NotIter

NextIter ==
    \/ IterNextCall
    \/ IterNextBackCall

(***************************************************************************)
(* value::Value: From<integer> and TryFrom<Value> for the integer types    *)
(*                                                                         *)
(* The integer types are those of the modelled Num variants; an integer    *)
(* type is named by its variant.                                           *)
(***************************************************************************)
IntTypes == UnsignedVariants \cup SignedVariants

TypeMin(type) ==
    CASE type = "U8" -> 0
      [] type = "U16" -> 0
      [] type = "I8" -> -128
      [] type = "I16" -> -32768
      [] type = "I32" -> -2147483647 - 1

TypeMax(type) ==
    CASE type = "U8" -> 255
      [] type = "U16" -> 65535
      [] type = "I8" -> 127
      [] type = "I16" -> 32767
      [] type = "I32" -> 2147483647

\* impl_from_primitive!: Value::Num(Num::from(x))
ValueFromInt(type, x) == NumValue(type, x)

\* Value::to_num
ToNum(value) == IF value.kind = "number" THEN Some(Num(value.variant, value.v)) ELSE None

\* u128::try_into::<T>()
U128TryInto(type, u) == IF u <= TypeMax(type) THEN Some(u) ELSE None

\* impl_try_from_value! for the integer types:
\* v.to_num().and_then(|v| v.to_u128_lossy().ok()?.try_into().ok()).ok_or(v)
IntTryFrom(type, value) ==
    LET n == ToNum(value)
        got == IF n = None THEN None
               ELSE IF ~ToU128Lossy(n[1]).ok THEN None
               ELSE U128TryInto(type, ToU128Lossy(n[1]).v)
    IN  IF got # None THEN [ok |-> TRUE, x |-> got[1], value |-> None]
        ELSE [ok |-> FALSE, x |-> 0, value |-> Some(value)]

ConvAtRest ==
    /\ cvFrom = Num("U8", 0)
    /\ cvType = "U8"
    /\ cvOut = None

InitConvVars ==
    /\ cvFrom \in Nums
    /\ cvType \in IntTypes
    /\ cvOut = None

\* T::try_from(Value::from(x))
ConvTryFrom ==
    /\ cvOut = None
    /\ cvOut' = Some(IntTryFrom(cvType, ValueFromInt(cvFrom.variant, cvFrom.v)))
    /\ UNCHANGED <<cvFrom, cvType>>
    /\ NotConv

NextConv == ConvTryFrom

(***************************************************************************)
(* mockingbird: Renderer::render_site and render_collection_item           *)
(*                                                                         *)
(* A name is the sequence of its pieces (a run of letters, a digit, a '-', *)
(* and last the extension); a path is a sequence of names.  The site holds *)
(* up to MaxSiteItems of the files below: the collections docs and         *)
(* docs/intro with their index files, items of docs, and a datum.  The     *)
(* content of a file is the keys its front matter (or, for TOML, the file) *)
(* sets.                                                                   *)
(***************************************************************************)
DocsDir == << <<"docs">> >>
IntroDir == << <<"docs">>, <<"intro">> >>

ContentFile(kind, group, dirs, stem, ext) ==
    [kind |-> kind, group |-> group, path |-> group \o dirs \o <<stem \o <<ext>>>>,
     stem |-> stem, ext |-> ext]

SiteFiles ==
    { ContentFile("Index", DocsDir, <<>>, <<"index">>, "md"),
      ContentFile("Index", IntroDir, <<>>, <<"index">>, "md"),
      ContentFile("Item", DocsDir, <<>>, <<"intro">>, "md"),
      ContentFile("Item", DocsDir, <<>>, <<"1", "-", "intro">>, "md"),
      ContentFile("Item", DocsDir, <<>>, <<"2", "-", "intro">>, "md"),
      ContentFile("Item", DocsDir, <<>>, <<"notes">>, "txt"),
      ContentFile("Datum", DocsDir, << <<"data">> >>, <<"notes">>, "toml") }

FrontMatters ==
    { [draft |-> None, slug |-> None],
      [draft |-> Some(TRUE), slug |-> None],
      [draft |-> Some(FALSE), slug |-> None],
      [draft |-> None, slug |-> Some(<<"intro">>)] }

NoMetadata == [draft |-> None, slug |-> None, permapath |-> None, url |-> None]

\* The extensions render_collection_item reads metadata from.
KnownExts == {"md", "mdown", "markdown", "toml", "json"}
MarkdownExts == {"md", "mdown", "markdown"}

\* char::is_ascii_alphabetic and char::is_ascii_punctuation, on a piece
IsAlphabetic(piece) == piece \notin {"1", "2", "-"}
IsPunctuation(piece) == piece = "-"

\* StringExt::slugify: trim_start_matches(not alphabetic), then
\* trim_end_matches(punctuation)
RECURSIVE TrimStartNotAlphabetic(_)
TrimStartNotAlphabetic(s) ==
    IF s # <<>> /\ ~IsAlphabetic(Head(s)) THEN TrimStartNotAlphabetic(Tail(s)) ELSE s

RECURSIVE TrimEndPunctuation(_)
TrimEndPunctuation(s) ==
    IF s # <<>> /\ IsPunctuation(s[Len(s)])
    THEN TrimEndPunctuation(SubSeq(s, 1, Len(s) - 1))
    ELSE s

StemSlugify(stem) == TrimEndPunctuation(TrimStartNotAlphabetic(stem))

\* Sink for Metadata: append_all of the keys the content sets.
AppendAll(meta, content) ==
    [meta EXCEPT !.draft = IF content.draft # None THEN content.draft ELSE @,
                 !.slug = IF content.slug # None THEN content.slug ELSE @]

\* Metadata::get_or_insert_with(Slug, ..)
WithSlug(meta, stem) ==
    IF meta.slug # None THEN meta ELSE [meta EXCEPT !.slug = Some(StemSlugify(stem))]

\* The (permapath, url) of render_collection_item's match on (kind, rendered):
\* None for a rendered datum.  The url is the path it is made from and
\* whether "/" was appended.
PermaPathAndUrl(item, slug) ==
    LET rendered == item.ext \in KnownExts
        dir == item.group \o <<slug>>
    IN  CASE item.kind = "Index" /\ rendered ->
                Some([permapath |-> item.group \o << <<"index", "html">> >>,
                      url |-> [path |-> item.group, slash |-> TRUE]])
          [] item.kind = "Item" /\ rendered ->
                Some([permapath |-> dir \o << <<"index", "html">> >>,
                      url |-> [path |-> dir, slash |-> TRUE]])
          [] item.kind = "Datum" /\ rendered -> None
          [] OTHER ->
                Some([permapath |-> item.path, url |-> [path |-> item.path, slash |-> FALSE]])

\* render_collection_item, when nothing fails: the item's metadata after it.
RenderedMetadata(item, meta) ==
    IF meta.draft = Some(TRUE) THEN meta
    ELSE LET read == IF item.ext \in KnownExts THEN AppendAll(meta, item.content) ELSE meta
             slugged == WithSlug(read, item.stem)
             placed == PermaPathAndUrl(item, slugged.slug[1])
         IN  IF placed = None THEN slugged
             ELSE [slugged EXCEPT !.permapath = Some(placed[1].permapath),
                                  !.url = Some(placed[1].url)]

Sites ==
    UNION {[S -> SiteFiles] : S \in {1..n : n \in 1..MaxSiteItems}}

SiteItems == DOMAIN mbSite

MbAtRest ==
    /\ mbSite = <<>>
    /\ mbMeta = <<>>
    /\ mbPc = <<>>
    /\ mbPhase = "rest"
    /\ mbOut = <<>>

\* The site discover() returned: distinct files, each with its content.
InitMbVars ==
    /\ \E files \in Sites :
          /\ \A i, j \in DOMAIN files : i # j => files[i].path # files[j].path
          /\ \E contents \in [DOMAIN files -> FrontMatters] :
                /\ \A i \in DOMAIN files :
                      files[i].ext \notin KnownExts => contents[i] = [draft |-> None, slug |-> None]
                /\ mbSite = [i \in DOMAIN files |->
                                [kind |-> files[i].kind, group |-> files[i].group,
                                 path |-> files[i].path, stem |-> files[i].stem,
                                 ext |-> files[i].ext, content |-> contents[i]]]
    /\ mbMeta = [i \in DOMAIN mbSite |-> NoMetadata]
    /\ mbPc = [i \in DOMAIN mbSite |-> "new"]
    /\ mbPhase = "render"
    /\ mbOut = <<>>

\* harper's render_site calling render_collection_item on one item: Ok, or
\* the Err of a failed markdown run or deserialization.
RenderCollectionItem(i) ==
    /\ mbPhase = "render"
    /\ mbPc[i] = "new"
    /\ \/ /\ mbMeta' = [mbMeta EXCEPT ![i] = RenderedMetadata(mbSite[i], @)]
          /\ mbPc' = [mbPc EXCEPT ![i] = "rendered"]
          /\ UNCHANGED mbPhase
       \/ /\ mbSite[i].ext \in KnownExts
          /\ mbMeta[i].draft # Some(TRUE)
          /\ mbPhase' = "err"
          /\ UNCHANGED <<mbMeta, mbPc>>
    /\ UNCHANGED <<mbSite, mbOut>>
    /\ NotMb

\* Mockingbird::render_site, `render_site(self, site)?` returned Ok
RenderSiteRendered ==
    /\ mbPhase = "render"
    /\ \A i \in SiteItems : mbPc[i] = "rendered"
    /\ mbPhase' = "output"
    /\ UNCHANGED <<mbSite, mbMeta, mbPc, mbOut>>
    /\ NotMb

\* Mockingbird::render_site, the closure of the output phase on one item:
\* no PermaPath, or the write to self.output.join(permapath)
OutputItem(i) ==
    /\ mbPhase = "output"
    /\ mbPc[i] = "rendered"
    /\ IF mbMeta[i].permapath = None
       THEN /\ mbPc' = [mbPc EXCEPT ![i] = "skipped"]
            /\ UNCHANGED mbOut
       ELSE /\ mbPc' = [mbPc EXCEPT ![i] = "written"]
            /\ mbOut' = Append(mbOut, [path |-> mbMeta[i].permapath[1], item |-> i])
    /\ UNCHANGED <<mbSite, mbMeta, mbPhase>>
    /\ NotMb

\* Mockingbird::render_site, collect() of the output phase
RenderSiteCollected ==
    /\ mbPhase = "output"
    /\ \A i \in SiteItems : mbPc[i] \in {"written", "skipped"}
    /\ mbPhase' = "done"
    /\ UNCHANGED <<mbSite, mbMeta, mbPc, mbOut>>
    /\ NotMb

NextMb ==
    \/ \E i \in SiteItems : RenderCollectionItem(i)
    \/ RenderSiteRendered
    \/ \E i \in SiteItems : OutputItem(i)
    \/ RenderSiteCollected

(***************************************************************************)
(* Specifications: one per component, the other components at rest.        *)
(***************************************************************************)
\* The later components.
MoreAtRest == TypedAtRest /\ AssetsAtRest /\ HeadingAtRest /\ SnippetAtRest /\ NumAtRest /\ UrlAtRest /\ AdmonitionAtRest /\ ChainAtRest /\ IterAtRest /\ ConvAtRest /\ MbAtRest
InitTyped == InitTypedVars /\ InitListVars /\ InitMetaVars /\ DiscAtRest /\ MdAtRest /\ RenderAtRest /\ TreeAtRest /\ AssetsAtRest /\ HeadingAtRest /\ SnippetAtRest /\ NumAtRest /\ UrlAtRest /\ AdmonitionAtRest /\ ChainAtRest /\ IterAtRest /\ ConvAtRest /\ MbAtRest
InitAssets == InitAssetVars /\ InitListVars /\ InitMetaVars /\ MdAtRest /\ RenderAtRest /\ TreeAtRest /\ TypedAtRest /\ HeadingAtRest /\ SnippetAtRest /\ NumAtRest /\ UrlAtRest /\ AdmonitionAtRest /\ ChainAtRest /\ IterAtRest /\ ConvAtRest /\ MbAtRest
InitHeading == InitHeadingVars /\ InitListVars /\ InitMetaVars /\ DiscAtRest /\ MdAtRest /\ RenderAtRest /\ TreeAtRest /\ TypedAtRest /\ AssetsAtRest /\ SnippetAtRest /\ NumAtRest /\ UrlAtRest /\ AdmonitionAtRest /\ ChainAtRest /\ IterAtRest /\ ConvAtRest /\ MbAtRest
InitSnippet == InitSnippetVars /\ InitListVars /\ InitMetaVars /\ DiscAtRest /\ MdAtRest /\ RenderAtRest /\ TreeAtRest /\ TypedAtRest /\ AssetsAtRest /\ HeadingAtRest /\ NumAtRest /\ UrlAtRest /\ AdmonitionAtRest /\ ChainAtRest /\ IterAtRest /\ ConvAtRest /\ MbAtRest
InitNum == InitNumVars /\ InitListVars /\ InitMetaVars /\ DiscAtRest /\ MdAtRest /\ RenderAtRest /\ TreeAtRest /\ TypedAtRest /\ AssetsAtRest /\ HeadingAtRest /\ SnippetAtRest /\ UrlAtRest /\ AdmonitionAtRest /\ ChainAtRest /\ IterAtRest /\ ConvAtRest /\ MbAtRest
InitUrl == InitUrlVars /\ InitListVars /\ InitMetaVars /\ DiscAtRest /\ MdAtRest /\ RenderAtRest /\ TreeAtRest /\ TypedAtRest /\ AssetsAtRest /\ HeadingAtRest /\ SnippetAtRest /\ NumAtRest /\ AdmonitionAtRest /\ ChainAtRest /\ IterAtRest /\ ConvAtRest /\ MbAtRest
InitAdmonition == InitAdmonitionVars /\ InitListVars /\ InitMetaVars /\ DiscAtRest /\ MdAtRest /\ RenderAtRest /\ TreeAtRest /\ TypedAtRest /\ AssetsAtRest /\ HeadingAtRest /\ SnippetAtRest /\ NumAtRest /\ UrlAtRest /\ ChainAtRest /\ IterAtRest /\ ConvAtRest /\ MbAtRest
InitChain == InitChainVars /\ InitListVars /\ InitMetaVars /\ DiscAtRest /\ MdAtRest /\ RenderAtRest /\ TreeAtRest /\ TypedAtRest /\ AssetsAtRest /\ HeadingAtRest /\ SnippetAtRest /\ NumAtRest /\ UrlAtRest /\ AdmonitionAtRest /\ IterAtRest /\ ConvAtRest /\ MbAtRest
InitIter == InitIterVars /\ InitListVars /\ InitMetaVars /\ DiscAtRest /\ MdAtRest /\ RenderAtRest /\ TreeAtRest /\ TypedAtRest /\ AssetsAtRest /\ HeadingAtRest /\ SnippetAtRest /\ NumAtRest /\ UrlAtRest /\ AdmonitionAtRest /\ ChainAtRest /\ ConvAtRest /\ MbAtRest
InitConv == InitConvVars /\ InitListVars /\ InitMetaVars /\ DiscAtRest /\ MdAtRest /\ RenderAtRest /\ TreeAtRest /\ TypedAtRest /\ AssetsAtRest /\ HeadingAtRest /\ SnippetAtRest /\ NumAtRest /\ UrlAtRest /\ AdmonitionAtRest /\ ChainAtRest /\ IterAtRest /\ MbAtRest
InitMb == InitMbVars /\ InitListVars /\ InitMetaVars /\ DiscAtRest /\ MdAtRest /\ RenderAtRest /\ TreeAtRest /\ TypedAtRest /\ AssetsAtRest /\ HeadingAtRest /\ SnippetAtRest /\ NumAtRest /\ UrlAtRest /\ AdmonitionAtRest /\ ChainAtRest /\ IterAtRest /\ ConvAtRest
\* The earlier components.
InitList == InitListVars /\ InitMetaVars /\ DiscAtRest /\ MdAtRest /\ RenderAtRest /\ TreeAtRest /\ MoreAtRest
InitMeta == InitMetaVars /\ InitListVars /\ DiscAtRest /\ MdAtRest /\ RenderAtRest /\ TreeAtRest /\ MoreAtRest
InitDisc == InitDiscVars /\ InitListVars /\ InitMetaVars /\ MdAtRest /\ RenderAtRest /\ TreeAtRest /\ MoreAtRest
InitMd == InitMdVars /\ InitListVars /\ InitMetaVars /\ DiscAtRest /\ RenderAtRest /\ TreeAtRest /\ MoreAtRest
InitTree == InitTreeVars /\ InitListVars /\ InitMetaVars /\ MdAtRest /\ RenderAtRest /\ MoreAtRest
InitRender == InitRenderVars /\ InitListVars /\ InitMetaVars /\ DiscAtRest /\ MdAtRest /\ TreeAtRest /\ MoreAtRest
InitDiscWalk == InitDiscWalkVars /\ InitListVars /\ InitMetaVars /\ MdAtRest /\ RenderAtRest /\ TreeAtRest /\ MoreAtRest

SpecList == InitList /\ [][NextList]_vars
SpecListPush == InitList /\ [][NextListPush]_vars
SpecListSeq == InitList /\ [][NextListSeq]_vars
SpecMeta == InitMeta /\ [][NextMeta]_vars
SpecMetaCore == InitMeta /\ [][NextMetaCore]_vars
SpecDisc == InitDisc /\ [][NextDisc]_vars
SpecDiscWalk == InitDiscWalk /\ [][NextDisc]_vars
SpecMd == InitMd /\ [][NextMd]_vars
SpecRender == InitRender /\ [][NextRender]_vars
SpecTree == InitTree /\ [][NextTree]_vars
SpecTreeBuild == InitTree /\ [][NextTreeBuild]_vars
SpecTreeIter == InitTree /\ [][NextTreeIter]_vars
SpecTreePaths == InitTree /\ [][NextTreePaths]_vars
SpecTyped == InitTyped /\ [][NextTyped]_vars
SpecAssets == InitAssets /\ [][NextAssets]_vars
SpecHeading == InitHeading /\ [][NextHeading]_vars
SpecSnippet == InitSnippet /\ [][NextSnippet]_vars
SpecNum == InitNum /\ [][NextNum]_vars
SpecUrl == InitUrl /\ [][NextUrl]_vars
SpecAdmonition == InitAdmonition /\ [][NextAdmonition]_vars
SpecChain == InitChain /\ [][NextChain]_vars
SpecIter == InitIter /\ [][NextIter]_vars
SpecConv == InitConv /\ [][NextConv]_vars
SpecMb == InitMb /\ [][NextMb]_vars

(***************************************************************************)
(* Claims about value::List                                                *)
(***************************************************************************)

\* The items get(0), ..., get(len-1) returns, as a set, and whether get is
\* one-to-one on 0..len-1.
Displayed == {Get(i) : i \in 0..(ListLen - 1)}
GetInjective == \A i, j \in 0..(ListLen - 1) : Get(i) = Get(j) => i = j

\* C1: after a sequence of push and sort_by calls that ends with sort_by(cmp),
\* also on a list an earlier sort_by reordered, get(0), ..., get(len-1) is a
\* sequence in which every adjacent pair is ordered by cmp.
C1_SortedAfterSortBy ==
    (ListIdle /\ lastOp = "sort_by") =>
        \A i \in 0..(ListLen - 2) : Compare(Get(i)[1], Get(i + 1)[1]) # "Greater"

\* C5: once every concurrent push has returned, len() is the number of items
\* pushed and each pushed item is returned by get at exactly one index below
\* len(): none lost, none duplicated.
C5_ConcurrentPushKeepsAll ==
    PushIdle =>
        /\ ListLen = Cardinality(pushedSet)
        /\ \A x \in pushedSet :
               Cardinality({i \in 0..(ListLen - 1) : Get(i) = Some(x)}) = 1

\* C5 witness: pushes that overlapped in time have all returned and filled the list.
C5_Witness == PushIdle /\ pushRaced /\ ListLen = MaxItems

\* C6, in every state with no push running: get(i) is None exactly for
\* i >= len(), and get on 0..len-1 is a bijection onto the stored elements,
\* which are the pushed ones.
C6_State ==
    PushIdle =>
        /\ \A i \in 0..MaxItems : (Get(i) = None) <=> (i >= ListLen)
        /\ GetInjective
        /\ Displayed = {slots[i] : i \in 0..(ListLen - 1)}
        /\ Displayed = {Some(x) : x \in pushedSet}

\* C6, in every step: len() does not decrease and an element never leaves or
\* changes its storage position.
C6_Step ==
    /\ count' >= count
    /\ \A i \in DOMAIN slots : slots[i] # None => slots'[i] = slots[i]

\* C6: across any sequence of push and sort_by calls len() never decreases,
\* storage positions never change, get(i) is None exactly for i >= len(), and
\* get on 0..len-1 is a bijection onto the stored elements, so sort_by changes
\* the display order only and elements pushed after a sort_by stay reachable.
C6_LengthGrowsGetBijective == [](C6_State) /\ [][C6_Step]_vars

\* C6 witness: a sort_by reordered the list, and an element pushed after it is
\* in the list.
C6_Witness ==
    /\ ListIdle
    /\ ordering # None
    /\ Len(ordering[1]) >= 2
    /\ Len(ordering[1]) < ListLen
    /\ ordering[1][1] # 0

\* C7: a get(i) that runs concurrently with sort_by resolves i through the
\* complete previous or the complete new ordering, and pushes that run
\* concurrently with one sort_by neither lose nor duplicate elements nor make
\* sort_by fail.
C7_SortAtomicPushSafe ==
    /\ sortPc # "panicked"
    /\ getPc = "resolved" => \E o \in getSeen : getIdx = Resolve(o, getI)
    /\ PushIdle => (GetInjective /\ Displayed = {Some(x) : x \in pushedSet})

(***************************************************************************)
(* Claims about taxonomy::Metadata                                         *)
(***************************************************************************)

MetaIdle == \A t \in Callers : mPc[t] = "idle"
LogOn(k) == {c \in log : c.key = k}
InsertsOn(k) == {r \in inserts : r.key = k}

\* C2: when M threads concurrently call get_or_insert_raw_with(key, f_i) for a
\* key that is absent, with distinct producer values, one value ends up
\* stored and every one of the M calls returns that value, which is what a
\* later get_raw(key) yields.
C2_SingleWinnerReturned ==
    \A k \in Keys :
        (MetaIdle /\ \A c \in LogOn(k) : c.op = "get_or_insert_raw_with") =>
            \A c \in LogOn(k) : c.ret = GetRaw(map, k)

\* C3: once a key holds a value, no call of the get_or_insert family replaces
\* that value: a step that changes the value of a present key is a step of an
\* insert_raw call.
C3_GetOrInsertNoOpWhenPresent ==
    [][\A k \in Keys :
          (map[k] # None /\ map'[k] # map[k]) =>
              \E t \in Callers : mOp[t] = "insert_raw" /\ mPc'[t] # mPc[t]]_vars

\* C4: insert_raw leaves its value stored under the key and returns the value
\* it replaced (None only for the insert that found the key absent); the
\* replacements on one key form a single chain, each inserted value being
\* either the stored value or the previous value of exactly one other insert;
\* and get_raw sees absence or a value some call inserted.
C4_InsertRawChain ==
    \A k \in Keys :
        /\ \A r \in InsertsOn(k) : r.stored = Some(r.val)
        /\ \A r \in InsertsOn(k) :
               \/ r.prev = None
               \/ \E q \in InsertsOn(k) : q.val # r.val /\ r.prev = Some(q.val)
        /\ Cardinality({r \in InsertsOn(k) : r.prev = None}) <= 1
        /\ (map[k] = None) <=> (InsertsOn(k) = {})
        /\ \A r \in InsertsOn(k) :
               LET after == {q \in InsertsOn(k) : q.prev = Some(r.val)}
               IN  IF map[k] = Some(r.val) THEN after = {}
                   ELSE Cardinality(after) = 1
        /\ \A c \in LogOn(k) :
               c.op = "get_raw" =>
                   \/ c.ret = None
                   \/ \E r \in InsertsOn(k) : c.ret = Some(r.val)

\* C4 witness: two insert_raw calls raced on an absent key, so the second one
\* got the first one's value back from self.map.insert.
C4_Witness ==
    \E r \in inserts : r.via = "insert" /\ r.prev # None

(***************************************************************************)
(* Claims about Mockingbird::discover                                      *)
(*                                                                         *)
(* The claims are stated over paths; the code works on parent links.       *)
(***************************************************************************)

ContentPath == Entry(ContentRoot).path
DirOf(id) == SubSeq(Entry(id).path, 1, Len(Entry(id).path) - 1)
\* The regular files below the content root, index files and the others.
ContentFiles ==
    {i \in 0..(Len(tree) - 1) :
        /\ Entry(i).is_file
        /\ StartsWith(Entry(i).path, ContentPath)}
IsIndexFile(id) ==
    LET name == Entry(id).file_name
    IN  name = <<"index">> \/ (Len(name) = 2 /\ name[1] = "index")
IndexFiles == {f \in ContentFiles : IsIndexFile(f)}
OtherFiles == ContentFiles \ IndexFiles
IdOf(path) == MapGet(tree, path)[1]

\* The item lists of a collection that hold file f: its direct items, or the
\* data group of a directory.
DirectItems == <<"items", 0>>
DataGroup(d) == <<"data", d>>
ListsHolding(c, f) ==
    (IF \E i \in 1..Len(collections[c].items) : collections[c].items[i] = f
     THEN {DirectItems} ELSE {})
    \cup {DataGroup(d) : d \in
             {d \in DataDirs(collections[c]) :
                 \E i \in 1..Len(DataOf(collections[c], d)) :
                     DataOf(collections[c], d)[i] = f}}
Holders(f) == {c \in DOMAIN collections : ListsHolding(c, f) # {}}

\* The directories that hold an index file, and the nearest of them above f
\* (the content root when there is none).
IndexedDirs == {DirOf(f) : f \in IndexFiles}
OwnerPath(f) ==
    LET above == {p \in IndexedDirs : StartsWith(DirOf(f), p)}
    IN  IF above = {} THEN ContentPath
        ELSE CHOOSE p \in above : \A q \in above : Len(q) <= Len(p)

\* The files of the example: content/index.md, content/post.md and
\* content/post/extra.toml.
ExampleIndex == Append(DirPath(1), <<"index", "md">>)
ExamplePost == Append(DirPath(1), <<"post", "md">>)
ExampleExtra == Append(DirPath(2), <<"extra", "toml">>)
IsExample ==
    {Entry(f).path : f \in ContentFiles} = {ExampleIndex, ExamplePost, ExampleExtra}

DuplicateIndex ==
    \E f, g \in IndexFiles : f # g /\ DirOf(f) = DirOf(g)

IsPreprocess(c) == c.hook = "preprocess"
IsFinalize(c) == c.hook = "finalize"
PreCalls == SelectSeq(hookLog, IsPreprocess)
FinCalls == SelectSeq(hookLog, IsFinalize)
StageOf(id) == plugins[Len(plugins) - id + 1]
Declared == 1..Len(plugins)
Remaps(id) == StageOf(id).kind \in {"lazy", "render", "parts"}

\* Each preprocess call after the first is handed the output of the one
\* before it, and the first is handed the raw input.
PreprocessFeeds ==
    /\ PreCalls # <<>> => PreCalls[1].in \in RawInputs
    /\ \A n \in 1..(Len(PreCalls) - 1) :
           PreCalls[n].ok /\ PreCalls[n + 1].in = PreCalls[n].out

\* C11 (as stated): the preprocess hooks run in declaration-reverse order:
\* the n-th preprocess call is made on the stage declared n-th from the
\* last, the first on the raw input and each later one on the output of the
\* call before it.
C11_PreprocessDeclarationReverse ==
    /\ \A n \in 1..Len(PreCalls) : PreCalls[n].stage = Len(plugins) - n + 1
    /\ PreprocessFeeds

\* C11 (amended): the preprocess hooks run in declaration order: the n-th
\* preprocess call is made on the stage declared n-th, the first on the raw
\* input and each later one on the output of the call before it.
C11_PreprocessDeclarationOrder ==
    /\ \A n \in 1..Len(PreCalls) : PreCalls[n].stage = n
    /\ PreprocessFeeds

C11_Witness ==
    /\ mdPc = "ok"
    /\ Len(PreCalls) >= 2
    /\ PreCalls[1].out # PreCalls[1].in
    /\ PreCalls[2].out # PreCalls[2].in

\* C12 (as stated): the first-declared stage's remap is outermost: every
\* event a stage's remap is handed has been transformed only by stages
\* declared after it, and the last-declared remapping stage is handed the
\* parser's events as they are.
C12_FirstDeclaredRemapOutermost ==
    \A s \in Declared : \A i \in 1..Len(received[s]) :
        \A j \in 1..Len(received[s][i].by) : received[s][i].by[j] > s

\* The stages declared after a and before b whose remap maps event by event,
\* in declaration order.
IsLazyId(id) == id \in Declared /\ StageOf(id).kind = "lazy"
LazyBetween(a, b) ==
    LET Inside(id) == a < id /\ id < b /\ IsLazyId(id)
    IN  SelectSeq([i \in 1..MaxStages |-> i], Inside)

\* The stage an event comes from: 0 for the parser.
Origin(e) == IF e.src[1] = "html" THEN e.src[2] ELSE 0

\* C12 (amended): the last-declared stage's remap is outermost: every event
\* a stage's remap is handed has been transformed by exactly the remapping
\* stages declared before it (and after the stage the event comes from), in
\* declaration order, so the first-declared stage is handed the parser's
\* events as they are.
C12_LastDeclaredRemapOutermost ==
    \A s \in Declared : \A i \in 1..Len(received[s]) :
        received[s][i].by = LazyBetween(Origin(received[s][i]), s)

C12_Witness ==
    \E s \in Declared : \E i \in 1..Len(received[s]) :
        /\ Len(received[s][i].by) >= 2
        /\ Origin(received[s][i]) = 0

\* C13: on a run that succeeds every stage's finalize has been called
\* exactly once, and whenever a finalize has been called the composed
\* stream is exhausted and every remap has seen the end of its input.
C13_FinalizeOnceAfterDrain ==
    /\ mdPc = "ok" =>
           \A s \in Declared :
               Cardinality({n \in 1..Len(FinCalls) : FinCalls[n].stage = s}) = 1
    /\ FinCalls # <<>> =>
           /\ mdBase = <<>>
           /\ \A s \in Declared : Remaps(s) => ended[s]

C13_Witness ==
    /\ mdPc = "ok"
    /\ Len(plugins) >= 2
    /\ \E s \in Declared : StageOf(s).kind = "lazy" /\ received[s] # <<>>

(***************************************************************************)
(* Claims about taxonomy::renderer                                         *)
(***************************************************************************)
Rendered(c) == collected[c] # None
Failed(c) == Rendered(c) /\ ~collected[c][1].ok
Range(seq) == {seq[n] : n \in 1..Len(seq)}
DataItems(col) == UNION {Range(col.data[g].list.items) : g \in DOMAIN col.data}
AllItems(col) == Range(col.index) \cup DataItems(col) \cup Range(col.items.items)
KindRankIndexFirst(v) ==
    CASE v.kind[1] = "Index" -> 0 [] v.kind[1] = "Datum" -> 1 [] OTHER -> 2
KindRankDataFirst(v) ==
    CASE v.kind[1] = "Datum" -> 0 [] v.kind[1] = "Index" -> 1 [] OTHER -> 2

\* Every item of the collection is mapped once.
VisitsAll(c) ==
    /\ Range([n \in 1..Len(visits[c]) |-> visits[c][n].item]) = AllItems(rSite[c])
    /\ Len(visits[c]) = Cardinality(AllItems(rSite[c]))

\* C14 (as stated): the per-collection sequence of render results is
\* ordered index first, then the data groups, then the direct items.
C14_IndexDataItems ==
    \A c \in RCollections : Rendered(c) =>
        /\ VisitsAll(c)
        /\ \A m, n \in 1..Len(visits[c]) :
               m < n => KindRankIndexFirst(visits[c][m]) <= KindRankIndexFirst(visits[c][n])

\* C14 (amended): the per-collection sequence of render results is ordered
\* data groups first, then the index (if any), then the direct items.
C14_DataIndexItems ==
    \A c \in RCollections : Rendered(c) =>
        /\ VisitsAll(c)
        /\ \A m, n \in 1..Len(visits[c]) :
               m < n => KindRankDataFirst(visits[c][m]) <= KindRankDataFirst(visits[c][n])

C14_Witness ==
    \E c \in RCollections :
        /\ Rendered(c)
        /\ rSite[c].index # None
        /\ DataItems(rSite[c]) # {}
        /\ LenOf(rSite[c].items) = 2

Innermost(e) == e[Len(e)]
Outermost(e) == e[1]

\* What render_site returns when at most one of the two streams fails.
AtMostOneFails ==
    /\ rResult[1].ok <=> (streamRes[1].ok /\ assetsRes[1].ok)
    /\ (streamRes[1].ok /\ ~assetsRes[1].ok) => rResult[1] = assetsRes[1]
    /\ (~streamRes[1].ok /\ assetsRes[1].ok) => rResult[1] = streamRes[1]

BothFail == rResult # None /\ ~streamRes[1].ok /\ ~assetsRes[1].ok

\* C15 (as stated): render_site succeeds only if both streams succeed; if
\* exactly one fails that error alone is returned; if both fail the returned
\* error chains the two, the resource stream's error being the inner cause.
C15_ResourceErrorInner ==
    rResult # None =>
        /\ AtMostOneFails
        /\ BothFail =>
               /\ Range(rResult[1].err) = Range(streamRes[1].err) \cup Range(assetsRes[1].err)
               /\ Innermost(rResult[1].err) = Innermost(assetsRes[1].err)

\* C15 (amended): render_site succeeds only if both streams succeed; if
\* exactly one fails that error alone is returned; if both fail the returned
\* error chains the two, the collection stream's error being the inner
\* cause beneath the resource stream's error.
C15_CollectionErrorInner ==
    rResult # None =>
        /\ AtMostOneFails
        /\ BothFail =>
               /\ Range(rResult[1].err) = Range(streamRes[1].err) \cup Range(assetsRes[1].err)
               /\ Innermost(rResult[1].err) = Innermost(streamRes[1].err)
               /\ Outermost(rResult[1].err) = Outermost(assetsRes[1].err)

C15_Witness == BothFail

\* C16: when two different collections fail in one render_site call, the
\* error render_site returns records the errors of both.
C16_BothCollectionErrorsKept ==
    rResult # None =>
        \A c \in RCollections :
            Failed(c) => Range(collected[c][1].err) \subseteq Range(rResult[1].err)

\* C17: when the render_collection_item calls of a collection are made, the
\* sorts of its items and data lists are done, and the position i of every
\* Kind::Item(i) is the item's position among the collection's direct
\* items in path order.
C17_SortedBeforeRender ==
    \A c \in RCollections : Rendered(c) =>
        /\ sortedItems[c] /\ sortedData[c]
        /\ \A n \in 1..Len(visits[c]) :
               visits[c][n].kind[1] = "Item" =>
                   visits[c][n].kind[2] =
                       Cardinality({p \in Range(rSite[c].items.items) : p < visits[c][n].item})

(***************************************************************************)
(* Claims about fstree::FsTree                                             *)
(***************************************************************************)
EntryIds == 0..(Len(tree) - 1)
ValidId(id) == id # None => (id[1] \in EntryIds /\ Entry(id[1]).id = id[1])
ChildrenOf(p) == Range(Entry(p).children)

\* C18: in every tree build_with builds, each entry other than the root has
\* a parent one level above it, the entry at index i carries the id i, and
\* every id that get_id, get_file_id, get or search returns indexes an entry
\* with that id.
C18_TreeInvariant ==
    /\ \A i \in EntryIds :
           /\ Entry(i).id = i
           /\ i # RootId =>
                  /\ Entry(i).parent # None
                  /\ Entry(i).depth = Entry(Entry(i).parent[1]).depth + 1
    /\ fsGot # None =>
           /\ ValidId(fsGot[1].id)
           /\ ValidId(fsGot[1].file_id)
           /\ ValidId(fsGot[1].found)
           /\ fsGot[1].entry # None =>
                  /\ fsGot[1].entry[1].id \in EntryIds
                  /\ Entry(fsGot[1].entry[1].id) = fsGot[1].entry[1]

\* C19: for every walker output, skipped entries included, each entry's
\* parent was inserted before it, only the root entry EntryId(0) has no
\* parent, and e is listed in children(p) exactly when parent(e) is p.
C19_ParentBeforeChild ==
    /\ \A i \in EntryIds :
           /\ Entry(i).parent # None => Entry(i).parent[1] < i
           /\ Entry(i).parent = None <=> i = RootId
    /\ \A p, e \in EntryIds : e \in ChildrenOf(p) <=> Entry(e).parent = Some(p)

\* The entries reachable from R through child links, R included.
RECURSIVE ReachFrom(_, _)
ReachFrom(frontier, seen) ==
    IF frontier = {} THEN seen
    ELSE LET next == UNION {ChildrenOf(p) : p \in frontier} \ seen
         IN  ReachFrom(next, seen \cup next)
Reachable(R) == ReachFrom({R}, {R})

\* The roots a lookup's `root` argument stands for.
RootOf(root) == IF root = None THEN RootId ELSE root[1]

\* C20: for every entry e reachable from an entry R through child links,
\* get(R, path of e relative to R) returns e, get_id its id, and
\* get_file_id its id when e is a regular file and None when it is a
\* directory.
C20_RoundTrip ==
    /\ \A R \in EntryIds : \A e \in Reachable(R) :
           PathRelativeTo(Entry(e), Entry(R)) # None
    /\ (fsGot # None /\ RootOf(fsGot[1].root) \in EntryIds) =>
           LET R == RootOf(fsGot[1].root)
           IN  \A e \in Reachable(R) :
                   Some(fsGot[1].path) = PathRelativeTo(Entry(e), Entry(R))
                   => /\ fsGot[1].entry = Some(Entry(e))
                      /\ fsGot[1].id = Some(e)
                      /\ fsGot[1].file_id = IF Entry(e).is_file THEN Some(e) ELSE None

C20_Witness ==
    /\ fsGot # None
    /\ fsGot[1].root # None
    /\ fsGot[1].root[1] # RootId
    /\ Len(fsGot[1].path) = 2
    /\ fsGot[1].file_id # None
    /\ fsGot[1].file_id[1] \in Reachable(fsGot[1].root[1])
    /\ \E n \in 1..Len(fsWalk) : ~fsWalk[n].has_metadata

\* C21: build_with runs the callback once for each inserted entry, in
\* EntryId order and with the entry already in the arena; the first callback
\* failure is the build's result, after which nothing is inserted and no
\* callback runs; a walk that inserts nothing returns the zero-files error,
\* never an empty tree.
CallbackPerEntry ==
    /\ Len(fsCalled) = Len(tree)
    /\ \A k \in 1..Len(fsCalled) :
           /\ fsCalled[k].id = k - 1
           /\ fsCalled[k].id < fsCalled[k].len
FirstFailureReturned ==
    /\ \A k \in 1..Len(fsCalled) :
           ~fsCalled[k].ok => (k = Len(fsCalled) /\ fsPc = "failed"
                                /\ fsErr = Some("callback"))
    /\ fsErr = Some("callback") =>
           (fsCalled # <<>> /\ ~fsCalled[Len(fsCalled)].ok)
ZeroFilesFails ==
    /\ fsPc = "built" => (Len(tree) > 0 /\ fsErr = None)
    /\ (fsPc = "failed" /\ Len(tree) = 0) => fsErr = Some("zero files")
    /\ (fsNext = Len(fsWalk) /\ Len(tree) = 0) => fsPc # "built"
NothingAfterFailure ==
    fsPc = "failed" => UNCHANGED <<tree, fsCalled, fsErr, fsPc>>
C21_CallbackOncePerEntry ==
    /\ [](fsPc # "rest" => (CallbackPerEntry /\ FirstFailureReturned /\ ZeroFilesFails))
    /\ [][NothingAfterFailure]_vars

C21_Witness ==
    /\ fsErr = Some("callback")
    /\ Len(tree) = 2
    /\ \E n \in (fsNext + 1)..Len(fsWalk) : fsWalk[n].has_metadata
    /\ \E n \in 1..fsNext : ~fsWalk[n].has_metadata

\* C22: iter_breadth_first(root) yields every entry of the subtree rooted at
\* root exactly once, in non-decreasing depth order with siblings in
\* child-list order, and then ends; its frontier queue holds, apart from the
\* start root, only entries that have at least one child.
PlaceIn(seq, x) == CHOOSE n \in 1..Len(seq) : seq[n] = x
NoRepeats(seq) == \A m, n \in 1..Len(seq) : seq[m] = seq[n] => m = n
DepthOrdered(seq) ==
    \A m, n \in 1..Len(seq) : m < n => Entry(seq[m]).depth <= Entry(seq[n]).depth
SiblingOrdered(seq) ==
    \A p \in EntryIds : \A i, j \in 1..Len(Entry(p).children) :
        (/\ i < j
         /\ Entry(p).children[i] \in Range(seq)
         /\ Entry(p).children[j] \in Range(seq))
        => PlaceIn(seq, Entry(p).children[i]) < PlaceIn(seq, Entry(p).children[j])
FrontierHasChildren(b) ==
    \A n \in 1..Len(b.it.stack) :
        b.it.stack[n] # b.start => Entry(b.it.stack[n]).children # <<>>
C22_BreadthFirstOnce ==
    fsBfs # None =>
        LET b == fsBfs[1]
        IN  /\ NoRepeats(b.yielded)
            /\ DepthOrdered(b.yielded)
            /\ SiblingOrdered(b.yielded)
            /\ Range(b.yielded) \subseteq Reachable(b.start)
            /\ FrontierHasChildren(b)
            /\ b.ended => Range(b.yielded) = Reachable(b.start)

C22_Witness ==
    /\ fsBfs # None
    /\ fsBfs[1].ended
    /\ fsBfs[1].start # RootId
    /\ Len(fsBfs[1].yielded) >= 4
    /\ \E p \in Range(fsBfs[1].yielded) : Len(Entry(p).children) >= 2
    /\ \E m, n \in 1..Len(fsBfs[1].yielded) :
          Entry(fsBfs[1].yielded[m]).depth + 2 <= Entry(fsBfs[1].yielded[n]).depth

\* C23: path_exists(from, to) returns true exactly when to is from or a
\* descendant of from through parent links, for every pair of entries, and
\* its loop takes no more turns than to is deep.
RECURSIVE AncestorsOrSelf(_)
AncestorsOrSelf(e) ==
    IF Entry(e).parent = None THEN {e}
    ELSE {e} \cup AncestorsOrSelf(Entry(e).parent[1])
C23_PathExistsIffDescendant ==
    fsPe # None =>
        /\ fsPe[1].turns <= Entry(fsPe[1].to).depth + 1
        /\ fsPe[1].pc = "returned" =>
               (fsPe[1].res <=> fsPe[1].from \in AncestorsOrSelf(fsPe[1].to))

(***************************************************************************)
(* Claims about the typed reads of taxonomy::Metadata                      *)
(***************************************************************************)
Converts(K, value) == TryInto(K.type, value).ok

\* C24: Metadata::get::<K>() returns None exactly when K::KEY is absent,
\* Some(Err(v)) with the stored value v exactly when the key is present and
\* v does not convert to K::Value, and Some(Ok(x)) otherwise; Key::read
\* reports the absent key and the wrong-type value as two different errors;
\* no read changes the store.
C24_TypedGetThreeOutcomes ==
    tRead # None =>
        LET r == tRead[1]
            stored == tMap[r.K.key]
        IN  /\ tMap = r.before
            /\ r.op = "get" =>
                 /\ r.out.tag = "None" <=> stored = None
                 /\ r.out.tag = "Err" <=> (stored # None /\ ~Converts(r.K, stored[1]))
                 /\ r.out.tag = "Err" => r.out.value = stored
                 /\ r.out.tag = "Ok" <=> (stored # None /\ Converts(r.K, stored[1]))
            /\ r.op = "read" =>
                 /\ r.out.tag = "Ok" <=> (stored # None /\ Converts(r.K, stored[1]))
                 /\ stored = None =>
                        r.out.error = "attempted to read nonexistent metadata key"
                 /\ (stored # None /\ ~Converts(r.K, stored[1])) =>
                        r.out.error = "unexpected metadata value type"
                 /\ "attempted to read nonexistent metadata key"
                        # "unexpected metadata value type"

C24_Witness ==
    /\ tRead # None
    /\ tRead[1].op = "get"
    /\ tRead[1].K = Position
    /\ tRead[1].out.tag = "Err"
    /\ tRead[1].out.value = Some(NumValue("I8", -1))
    /\ tMap["slug"] # None

(***************************************************************************)
(* Claims about Mockingbird::build_site_items                              *)
(***************************************************************************)
\* The names on the way from the assets root down to the entry, its own
\* included.
NamesBelowAssets(e) ==
    {e.path[k] : k \in (Len(AssetsPath) + 1)..Len(e.path)}
HiddenName(name) ==
    \/ name[1] = ""
    \/ name \in {<<"include">>, <<"Include">>, <<"includes">>, <<"INCLUDES">>}
\* The regular files under the assets root that are not hidden and have no
\* hidden ancestor below it.
ShownAssetFiles ==
    {i \in EntryIds :
        /\ Entry(i).is_file
        /\ Len(Entry(i).path) > Len(AssetsPath)
        /\ StartsWith(Entry(i).path, AssetsPath)
        /\ \A name \in NamesBelowAssets(Entry(i)) : ~HiddenName(name)}

\* C25: build_site_items creates exactly one resource Item for every regular
\* file under the assets root that is not hidden and has no hidden ancestor
\* below the assets root, none for any other entry, and tags each item with
\* a permapath equal to its path relative to the assets root.
C25_OneResourcePerShownFile ==
    /\ aPc # "rest" =>
          /\ NoRepeats([n \in 1..Len(aItems) |-> aItems[n].id])
          /\ \A n \in 1..Len(aItems) :
                /\ aItems[n].id \in ShownAssetFiles
                /\ aItems[n].permapath =
                      SubSeq(Entry(aItems[n].id).path, Len(AssetsPath) + 1,
                             Len(Entry(aItems[n].id).path))
    /\ (aPc = "done" /\ aRoot # None) =>
          {aItems[n].id : n \in 1..Len(aItems)} = ShownAssetFiles
    /\ (aPc = "done" /\ aRoot = None) => aItems = <<>>

(***************************************************************************)
(* Claims about markdown::AutoHeading and markdown::HeadingAnchor          *)
(***************************************************************************)
IsHeadingStart(event) == event.type = "Start" /\ event.tag = "Heading"
IsAnchor(event) == event.type = "Html"
\* The places of the heading openings in a sequence of events, in order.
HeadingStarts(events) == SelectSeq([n \in 1..Len(events) |-> n],
                                   LAMBDA n : IsHeadingStart(events[n]))
\* The text of the heading that opens at place n of the document.
TitleAt(n) ==
    LET ends == {k \in (n + 1)..Len(hDoc) : IsHeadingEnd(hDoc[k])}
    IN  HeadingText(SubSeq(hDoc, n + 1, (CHOOSE k \in ends : \A j \in ends : k <= j) - 1))
\* The ids of the headings that came out, in order.
IdsOut == [k \in 1..Len(HeadingStarts(hOut)) |-> hOut[HeadingStarts(hOut)[k]].id[1]]
\* The events that came out, the anchors left out and the ids taken off.
WithoutAnchors ==
    LET kept == SelectSeq(hOut, LAMBDA e : ~IsAnchor(e))
    IN  [n \in 1..Len(kept) |-> IF IsHeadingStart(kept[n])
                                THEN [kept[n] EXCEPT !.id = None] ELSE kept[n]]
TwoIntros ==
    /\ Len(HeadingStarts(hDoc)) = 2
    /\ \A k \in 1..2 :
          /\ hDoc[HeadingStarts(hDoc)[k]].id = None
          /\ TitleAt(HeadingStarts(hDoc)[k]) = Chars("Intro")

\* C26: for a document with two headings both titled Intro and no explicit
\* ids, AutoHeading assigns the ids intro and intro-1 in document order, and
\* HeadingAnchor emits one anchor element for each heading, as the event
\* right after that heading's opening tag, all other events in their
\* original order.
C26_IntroThenIntro1 ==
    (TwoIntros /\ hEnded) =>
        /\ IdsOut = << <<"i", "n", "t", "r", "o">>,
                       <<"i", "n", "t", "r", "o", "-", "1">> >>
        /\ WithoutAnchors = hDoc
        /\ \A n \in 1..Len(hOut) :
              /\ IsHeadingStart(hOut[n]) =>
                    /\ n < Len(hOut)
                    /\ hOut[n + 1] = HtmlEvent(AnchorHtml(hOut[n].id[1]))
              /\ IsAnchor(hOut[n]) => (n > 1 /\ IsHeadingStart(hOut[n - 1]))

C26_Witness ==
    /\ TwoIntros
    /\ hEnded
    /\ Len(hDoc) = 10
    /\ hDoc[1].tag = "Paragraph"
    /\ \E n \in 1..Len(hDoc) : hDoc[n].type = "Code"

\* The ids AutoHeading assigned: those of the headings that had none.
AssignedIds ==
    LET starts == HeadingStarts(hDoc)
        given == SelectSeq([k \in 1..Len(starts) |-> k],
                           LAMBDA k : hDoc[starts[k]].id = None)
    IN  [j \in 1..Len(given) |-> IdsOut[given[j]]]

\* C27: AutoHeading de-duplicates the ids it assigns within one document:
\* among headings with the same slug the first gets the slug and each later
\* one the slug with a -N suffix of its own, so that the assigned ids are
\* pairwise distinct.
C27_AssignedIdsDistinct ==
    hEnded => NoRepeats(AssignedIds)

(***************************************************************************)
(* Claims about markdown::Snippet                                          *)
(***************************************************************************)
\* How many tags are open after the first k events of the document.
OpenAfter(k) ==
    Cardinality({m \in 1..k : sDoc[m].type = "Start"})
    - Cardinality({m \in 1..k : sDoc[m].type = "End"})
\* The tag that encloses event n most closely, if any.
Enclosing(n) ==
    LET depth == OpenAfter(n)
        starts == {m \in 1..(n - 1) :
                      sDoc[m].type = "Start" /\ OpenAfter(m) = depth}
    IN  IF starts = {} THEN None
        ELSE Some(sDoc[CHOOSE m \in starts : \A j \in starts : j <= m].tag)
InCapturedTag(n) ==
    LET tag == Enclosing(n) IN tag # None /\ tag[1] \in CapturedTags
\* What event n of the body reads as in the snippet.
Serialized(n) ==
    LET event == sDoc[n]
    IN  CASE event.type = "Start" /\ event.tag \in CapturedTags -> <<OpenPiece(event.tag)>>
          [] event.type = "End" /\ event.tag \in CapturedTags -> <<ClosePiece(event.tag)>>
          [] event.type = "Text" /\ InCapturedTag(n) -> event.text
          [] event.type = "Code" /\ InCapturedTag(n) ->
                <<"<code>">> \o event.text \o <<"</code>">>
          [] event.type = "SoftBreak" /\ InCapturedTag(n) -> <<" ">>
          [] event.type = "HardBreak" /\ InCapturedTag(n) -> <<"<br>">>
          [] OTHER -> <<>>
RECURSIVE SerializedUpTo(_)
SerializedUpTo(n) == IF n = 0 THEN <<>> ELSE SerializedUpTo(n - 1) \o Serialized(n)
WholeBody == SerializedUpTo(Len(sDoc))
\* The length of the text the document holds inside captured tags.
RECURSIVE CapturedLengthUpTo(_)
CapturedLengthUpTo(n) ==
    IF n = 0 THEN 0
    ELSE CapturedLengthUpTo(n - 1)
         + (IF sDoc[n].type \in {"Text", "Code", "SoftBreak"} /\ InCapturedTag(n)
            THEN (IF sDoc[n].type = "SoftBreak" THEN 1 ELSE Len(sDoc[n].text))
            ELSE 0)
CapturedLength == CapturedLengthUpTo(Len(sDoc))
\* Every opening piece is closed by its closing piece, innermost first.
OpenPieces == {OpenPiece(tag) : tag \in CapturedTags}
ClosePieces == {ClosePiece(tag) : tag \in CapturedTags}
RECURSIVE TagsClosed(_, _)
TagsClosed(pieces, open) ==
    IF pieces = <<>> THEN open = <<>>
    ELSE IF Head(pieces) \in OpenPieces
         THEN TagsClosed(Tail(pieces), <<Head(pieces)>> \o open)
         ELSE IF Head(pieces) \in ClosePieces
              THEN /\ open # <<>>
                   /\ \E tag \in CapturedTags :
                         Head(open) = OpenPiece(tag) /\ Head(pieces) = ClosePiece(tag)
                   /\ TagsClosed(Tail(pieces), Tail(open))
              ELSE TagsClosed(Tail(pieces), open)

\* C28: with min_length = 0 the Snippet stage is done before the first event
\* and writes an empty snippet; with a min_length larger than the length of
\* the text the document holds for capture it is never done early, and the
\* snippet is the serialization of the whole body, every opened tag closed.
C28_SnippetBoundaries ==
    sPc # "rest" =>
        /\ sMin = 0 =>
              /\ sDone
              /\ sSnippet = <<>>
              /\ sPc = "finalized" => sWritten = Some(<<>>)
        /\ (sMin # 0 /\ sMin > CapturedLength) =>
              /\ ~sDone
              /\ ~sEarly
              /\ sPc = "iter" => sSnippet = SerializedUpTo(sPos)
              /\ sPc = "drained" => (sSnippet = WholeBody /\ TagsClosed(sSnippet, <<>>))
              /\ sPc = "finalized" =>
                    (sWritten = Some(WholeBody) /\ TagsClosed(sWritten[1], <<>>))

C28_Witness ==
    /\ sPc = "finalized"
    /\ sMin = MockingbirdLength
    /\ CapturedLength >= 4
    /\ \E n \in 1..Len(sDoc) : sDoc[n].tag = "Heading"
    /\ \E n \in 1..Len(sDoc) : sDoc[n].tag = "Emphasis"
    /\ Len(sWritten[1]) >= 8

(***************************************************************************)
(* Claims about value::Num                                                 *)
(***************************************************************************)
\* C29: Num equality, ordering and hashing depend on the numeric value only:
\* numerically equal Nums of any variants are equal and hash alike, every
\* negative Num orders below every non-negative one, and cmp is a total
\* order that agrees with numeric order and with eq.
C29_NumByValue ==
    numOut # None =>
        LET out == numOut[1]
        IN  /\ out.eq <=> numA.v = numB.v
            /\ numA.v = numB.v => out.hashA = out.hashB
            /\ (numA.v < 0 /\ numB.v >= 0) => out.cmp = "Less"
            /\ out.cmp = IntCmp(numA.v, numB.v)
            /\ out.rev = IntCmp(numB.v, numA.v)
            /\ out.cmp = "Equal" <=> out.eq

C29_Witness ==
    /\ numOut # None
    /\ numA = Num("I32", 255)
    /\ numB = Num("U8", 255)
    /\ numOut[1].eq
    /\ numOut[1].hashA = numOut[1].hashB

(***************************************************************************)
(* Claims about url::UrlBuf::make_relative                                 *)
(***************************************************************************)
RocketFoo == <<"https", ":", "/", "/", "rocket.rs", "/", "foo">>
\* The pieces of a URL from the first one that is not a slash.
AfterSlashes(url) ==
    LET rest == {i \in 1..Len(url) : url[i] # "/"}
    IN  IF rest = {} THEN <<>>
        ELSE SubSeq(url, CHOOSE i \in rest : \A j \in rest : i <= j, Len(url))

\* C30: make_relative reduces a URL to its relative path part:
\* https://rocket.rs/foo becomes foo, scheme and host removed; a URL with
\* leading slashes loses them; a URL that is already relative stays as it is.
C30_MakeRelativeDropsSchemeHost ==
    urlPc = "relative" =>
        /\ urlFrom = RocketFoo => urlBuf = <<"foo">>
        /\ (urlFrom # <<>> /\ Head(urlFrom) = "/") => urlBuf = AfterSlashes(urlFrom)
        /\ ~IsAbsolute(urlFrom) => urlBuf = urlFrom

(***************************************************************************)
(* Claims about markdown::Admonition::preprocess                           *)
(***************************************************************************)
\* "!note: Title\n  Body line\n\nAfter\n"
AdSample ==
    <<"!", "note", ":", " ", "Title", "\n",
      " ", " ", "Body", " ", "line", "\n",
      "\n",
      "After", "\n">>
\* The input with every admonition found replaced by its container.
RECURSIVE AdRebuilt(_, _)
AdRebuilt(n, pos) ==
    IF n > Len(adSpans) THEN Slice(adInput, pos, Len(adInput))
    ELSE Slice(adInput, pos, adSpans[n].from)
         \o AdmonitionHtml(adSpans[n].name, adSpans[n].title,
                           Slice(adInput, adSpans[n].body, adSpans[n].to))
         \o AdRebuilt(n + 1, adSpans[n].to)
BangAtLineStart(k) == adInput[k + 1] = "!" /\ IsLineStart(k, adInput)
InsideSpan(k) == \E n \in 1..Len(adSpans) : adSpans[n].from <= k /\ k < adSpans[n].to
\* The admonitions found lie one after the other, each at a '!' that starts a
\* line, and no '!' that starts a line outside them is left.
SpansInOrder ==
    /\ \A n \in 1..Len(adSpans) :
           /\ BangAtLineStart(adSpans[n].from)
           /\ adSpans[n].from < adSpans[n].body
           /\ adSpans[n].body <= adSpans[n].to
           /\ adSpans[n].to <= Len(adInput)
           /\ n > 1 => adSpans[n - 1].to <= adSpans[n].from
    /\ \A k \in 0..(Len(adInput) - 1) : BangAtLineStart(k) => InsideSpan(k)
CopiedOutside ==
    /\ SpansInOrder
    /\ adOut = AdRebuilt(1, 0)
    /\ (\A k \in 0..(Len(adInput) - 1) : ~BangAtLineStart(k)) =>
           (adOut = adInput /\ ~adOwned)

\* C31 as stated: the sample becomes a container named note with the title
\* Title and a body that wraps Body line, then After unchanged; every byte
\* outside an admonition is copied unchanged and in order; an input with no
\* '!' at a line start is returned unchanged.
C31_AdmonitionSample ==
    adPc = "returned" =>
        /\ CopiedOutside
        /\ adInput = AdSample =>
              /\ Len(adSpans) = 1
              /\ adSpans[1].name = <<"note">>
              /\ adSpans[1].title = <<"Title">>
              /\ Slice(adInput, adSpans[1].body, adSpans[1].to)
                     = <<" ", " ", "Body", " ", "line", "\n", "\n">>
              /\ adOut = AdmonitionHtml(<<"note">>, <<"Title">>,
                                        <<" ", " ", "Body", " ", "line", "\n", "\n">>)
                         \o <<"After", "\n">>

\* C31, amended: the header of an admonition with a ':' runs to the first
\* blank line, so the sample becomes a container named note whose title is
\* "Title\n  Body line" and whose body is the blank line alone, then After
\* unchanged; every byte outside an admonition is copied unchanged and in
\* order; an input with no '!' at a line start is returned unchanged.
C31_AdmonitionTitleToBlankLine ==
    adPc = "returned" =>
        /\ CopiedOutside
        /\ adInput = AdSample =>
              /\ Len(adSpans) = 1
              /\ adSpans[1].name = <<"note">>
              /\ adSpans[1].title = <<"Title", "\n", " ", " ", "Body", " ", "line">>
              /\ Slice(adInput, adSpans[1].body, adSpans[1].to) = <<"\n">>
              /\ adOut = AdmonitionHtml(<<"note">>,
                                        <<"Title", "\n", " ", " ", "Body", " ", "line">>,
                                        <<"\n">>)
                         \o <<"After", "\n">>

C31_Witness ==
    /\ adPc = "returned"
    /\ adInput = AdSample
    /\ adOwned

(***************************************************************************)
(* Claims about render_collection's calls                                  *)
(***************************************************************************)
\* The calls a collection asks for: its index as Kind::Index, the members of
\* each data group as Kind::Datum(dir), and items.get(i) as Kind::Item(i).
CallsDue(col) ==
    {Visit(<<"Index", 0>>, x) : x \in Range(col.index)}
    \cup UNION {{Visit(<<"Datum", col.data[g].dir>>, x) : x \in Range(col.data[g].list.items)} :
                   g \in DOMAIN col.data}
    \cup {Visit(<<"Item", i>>, ListGet(col.items, i)[1]) : i \in 0..(LenOf(col.items) - 1)}
RECURSIVE GroupSizes(_)
GroupSizes(data) ==
    IF data = <<>> THEN 0 ELSE Len(Head(data).list.items) + GroupSizes(Tail(data))
ItemCount(col) == Len(col.index) + GroupSizes(col.data) + Len(col.items.items)

\* C32: a render_collection call in which no render fails calls
\* render_collection_item exactly once for every item of the collection and
\* for nothing else: the index with Kind::Index, each datum with
\* Kind::Datum(d), d the directory keying its group, and each direct item
\* with Kind::Item(i), where items.get(i) is that item.
C32_OneCallPerItem ==
    \A c \in RCollections :
        (Rendered(c) /\ collected[c][1].ok) =>
            /\ NoRepeats(visits[c])
            /\ Range(visits[c]) = CallsDue(rSite[c])
            /\ Len(visits[c]) = ItemCount(rSite[c])
            /\ {v.item : v \in Range(visits[c])} = AllItems(rSite[c])
            /\ \A v \in Range(visits[c]) :
                   v.kind[1] = "Item" => ListGet(rSite[c].items, v.kind[2]) = Some(v.item)

C32_Witness ==
    \E c \in RCollections :
        /\ Rendered(c) /\ collected[c][1].ok
        /\ rSite[c].index # None
        /\ rSite[c].items.items = <<2, 1>>
        /\ rSite[c].items.ordering = Some(<<1, 0>>)
        /\ \E g \in DOMAIN rSite[c].data : Len(rSite[c].data[g].list.items) = 2
        /\ Len(visits[c]) = 5

(***************************************************************************)
(* Claims about the buckets discover() fills                               *)
(***************************************************************************)
\* The buckets that hold file f: a collection's index, a place among its
\* direct items, or a place in one of its data groups.
BucketsHolding(f) ==
    {<<c, "index", 0, 0>> : c \in {r \in DOMAIN collections : collections[r].index = Some(f)}}
    \cup {<<cn[1], "items", 0, cn[2]>> :
             cn \in {x \in (DOMAIN collections) \X (1..Len(tree)) :
                        /\ x[2] <= Len(collections[x[1]].items)
                        /\ collections[x[1]].items[x[2]] = f}}
    \cup {<<cgn[1], "data", cgn[2], cgn[3]>> :
             cgn \in {x \in (DOMAIN collections) \X (1..Len(tree)) \X (1..Len(tree)) :
                         /\ x[2] <= Len(collections[x[1]].data)
                         /\ x[3] <= Len(collections[x[1]].data[x[2]].list)
                         /\ collections[x[1]].data[x[2]].list[x[3]] = f}}

\* C33: after a successful discover() every regular file under the content
\* root is in exactly one bucket of exactly one collection: its index, one
\* of its direct items, or a member of one of its data groups.
C33_EveryFileInOneBucket ==
    dPc = "done" => \A f \in ContentFiles : Cardinality(BucketsHolding(f)) = 1

(***************************************************************************)
(* Claims about where markdown::Snippet stops                              *)
(***************************************************************************)
\* What holds in every state of the stage: while it is done, and at the end
\* of the stream, every tag written has been closed, and the events passed
\* on are the events read, in their order.
SnippetStateOk ==
    sPc # "rest" =>
        /\ (sDone /\ sPc # "finalized") =>
               (sCapture = <<>> /\ sLen >= sMin /\ TagsClosed(sSnippet, <<>>))
        /\ sPc = "drained" => TagsClosed(sSnippet, <<>>)
        /\ sPc = "finalized" => TagsClosed(sWritten[1], <<>>)
        /\ sYielded = SubSeq(sDoc, 1, sPos)
\* What holds of every step: `done` is set only with no tag open and the
\* length reached, and a done stage leaves the snippet as it is until
\* finalize hands the same text to the output.
SnippetStepOk ==
    /\ (~sDone /\ sDone') => (sCapture' = <<>> /\ sLen' >= sMin)
    /\ sDone => sDone'
    /\ (sDone /\ sPc' # "finalized") => sSnippet' = sSnippet
    /\ (sDone /\ sPc' = "finalized") => sWritten' = Some(sSnippet)

\* C34: the Snippet stage stops capturing only at an event where its
\* open-tag stack is empty and the captured length has reached min_length;
\* once stopped the snippet text never changes again; at every stop point
\* and at end of stream each tag written to the snippet has been closed; and
\* every input event is passed downstream unchanged and in order.
C34_StopsBetweenBlocks == [](SnippetStateOk) /\ [][SnippetStepOk]_vars

C34_Witness ==
    /\ sPc = "finalized"
    /\ sMin = ShortLength
    /\ sEarly
    /\ sYielded = sDoc
    /\ Len(sWritten[1]) < Len(WholeBody)
    /\ Len(sWritten[1]) >= 4

(***************************************************************************)
(* Claims about error::Error::chain                                        *)
(***************************************************************************)
\* C35: a.chain(b) is all of b's chain followed by all of a's chain, b
\* outermost, so its length is the sum of the two; Result::chain(ctx) on
\* Err(e) reports ctx as the outer context with e kept whole as its cause,
\* and an Ok value passes through untouched.
C35_ChainKeepsBoth ==
    chOut # None =>
        /\ chOut[1].call = "Error::chain" =>
              /\ Len(chOut[1].err) = Len(chSelf.err) + Len(chOther)
              /\ SubSeq(chOut[1].err, 1, Len(chOther)) = chOther
              /\ SubSeq(chOut[1].err, Len(chOther) + 1, Len(chOut[1].err)) = chSelf.err
        /\ (chOut[1].call = "Result::chain" /\ chSelf.ok) => chOut[1].res = chSelf
        /\ (chOut[1].call = "Result::chain" /\ ~chSelf.ok) =>
              /\ ~chOut[1].res.ok
              /\ chOut[1].res.err[1] = chOther[1]
              /\ SubSeq(chOut[1].res.err, 1, Len(chOther)) = chOther
              /\ SubSeq(chOut[1].res.err, Len(chOther) + 1, Len(chOut[1].res.err)) = chSelf.err

C35_Witness ==
    /\ chOut # None
    /\ chOut[1].call = "Error::chain"
    /\ Len(chSelf.err) = 2
    /\ Len(chOther) = 2
    /\ chSelf.err[1] # chOther[1]
    /\ Len(chOut[1].err) = 4

\* C36: a failed preprocess is returned as it is, with no remap and no
\* finalize called; a failed finalize is the last hook called and is returned
\* behind the context "markdown plugin failed"; and once a hook has failed no
\* hook is called and nothing is stored, while what was stored stays stored.
FailedHooks == {i \in 1..Len(hookLog) : ~hookLog[i].ok}

FailureReturned ==
    \A i \in FailedHooks :
        /\ i = Len(hookLog)
        /\ mdPc = "err"
        /\ hookLog[i].hook = "preprocess" =>
              /\ mdErr = Some(HookError("preprocess", StageOf(hookLog[i].stage)))
              /\ \A j \in 1..Len(hookLog) : hookLog[j].hook = "preprocess"
        /\ hookLog[i].hook = "finalize" =>
              mdErr = Some(PluginFailed \o HookError("finalize", StageOf(hookLog[i].stage)))

StoredStays ==
    /\ Len(mdMeta') >= Len(mdMeta)
    /\ SubSeq(mdMeta', 1, Len(mdMeta)) = mdMeta
    /\ FailedHooks # {} => hookLog' = hookLog /\ mdMeta' = mdMeta

C36_FailedHookEndsRun == [](FailureReturned) /\ [][StoredStays]_vars

\* C36 happens: a finalize failed after another hook had stored a value.
C36_Witness ==
    /\ FailedHooks # {}
    /\ hookLog[Len(hookLog)].hook = "finalize"
    /\ mdMeta # <<>>
    /\ Len(SelectSeq(hookLog, IsFinalize)) < Len(plugins)

(***************************************************************************)
(* Claims about value::list::SliceIter                                     *)
(***************************************************************************)
\* The items of the slice in display order.
SliceItems == [i \in 1..SliceLen(itSlice) |-> SliceGet(itList, itSlice, i - 1)[1]]

\* The items the first n calls returned.
YieldedBy(n) == {itCalls[k].item[1] : k \in {j \in 1..n : itCalls[j].item # None}}

\* The positions of the slice whose item the first n calls did not return.
LeftAfter(n) == {i \in 1..SliceLen(itSlice) : SliceItems[i] \notin YieldedBy(n)}

Max(S) == CHOOSE x \in S : \A y \in S : y <= x
Min(S) == CHOOSE x \in S : \A y \in S : x <= y

\* C37: driven from both ends the iterator yields every item once: no item
\* is returned by two calls, next_back returns the last item not yet
\* returned and next the first, and None is returned only when none is left.
C37_BothEndsOnce ==
    \A n \in 1..Len(itCalls) :
        LET c == itCalls[n]
            left == LeftAfter(n - 1)
        IN  IF left = {} THEN c.item = None
            ELSE IF c.call = "next_back" THEN c.item = Some(SliceItems[Max(left)])
            ELSE c.item = Some(SliceItems[Min(left)])

(***************************************************************************)
(* Claims about value::Value's integer conversions                         *)
(***************************************************************************)
\* C38: an integer made into a Value and converted to an integer type comes
\* back as itself when it is in that type's range (so always for its own
\* type, negatives included), and otherwise the conversion fails and hands
\* back the Value.
C38_IntegerRoundTrip ==
    cvOut # None =>
        IF TypeMin(cvType) <= cvFrom.v /\ cvFrom.v <= TypeMax(cvType)
        THEN cvOut[1].ok /\ cvOut[1].x = cvFrom.v
        ELSE ~cvOut[1].ok /\ cvOut[1].value = Some(ValueFromInt(cvFrom.variant, cvFrom.v))

(***************************************************************************)
(* Claims about mockingbird's render_site and render_collection_item       *)
(***************************************************************************)
IsMarkdownDraft(i) ==
    mbSite[i].ext \in MarkdownExts /\ mbSite[i].content.draft = Some(TRUE)

\* C39: a markdown item whose front matter sets draft = true has, once
\* rendered, no permapath and no url, and no file is written for it.
C39_DraftInSameRun ==
    \A i \in SiteItems :
        IsMarkdownDraft(i) /\ mbPc[i] # "new" =>
            /\ mbMeta[i].permapath = None
            /\ mbMeta[i].url = None
            /\ \A k \in 1..Len(mbOut) : mbOut[k].item # i

\* C40: no two items of the site have the same permapath, and no two writes
\* of the output phase are to the same file.
C40_DistinctPermaPaths ==
    /\ \A i, j \in SiteItems :
          i # j /\ mbMeta[i].permapath # None /\ mbMeta[j].permapath # None =>
              mbMeta[i].permapath # mbMeta[j].permapath
    /\ \A k, l \in 1..Len(mbOut) : k # l => mbOut[k].path # mbOut[l].path

=============================================================================
